---- MODULE Spec2Model ----
(***************************************************************************)
(* TX Converter (src/main.py): the batch scheduler TextureWorker.run, the  *)
(* conversion executor TextureWorker.convert_texture, the three backend    *)
(* command builders, the color-space classifier                            *)
(* TxConverterUI.determine_color_space and the UI handlers that start and  *)
(* retire a worker.                                                        *)
(***************************************************************************)
EXTENDS Integers, Sequences, FiniteSets, TLC

(***************************************************************************)
(* Bounds of the model.                                                    *)
(***************************************************************************)
\* largest number of textures of one batch run under Spec
MaxN == 3
\* largest batch_size read from the user settings
MaxBatch == 2
\* number of 'Process Textures' clicks that create a worker under SpecUI
MaxRuns == 2
\* largest number of textures of one batch run under SpecUI
MaxUiN == 1

\* batch_size = int(userSettings.get("batch_size", 6)): any integer of the
\* settings file, zero and negative values included
BatchSizes == (0 - 1)..MaxBatch

Runs == 1..MaxRuns
NoRun == 0

VARIABLES
    worker,         \* TxConverterUI.worker: NoRun (None) or the run it holds
    worker_thread,  \* TxConverterUI.worker_thread: NoRun (None) or a run's thread
    progressBar,    \* [max, value] of the progress bar
    uiQueue,        \* signals queued to the UI thread, oldest first
    uiWait,         \* the thread workerFinished is blocked on in wait(), or NoRun
    aborted,        \* the process was ended by the Qt runtime
    nruns,          \* number of TextureWorker objects created so far
    run,            \* per run: the state of TextureWorker.run
    item,           \* per run: one record per texture of self.textures
    events,         \* per run: the progress/finished signals emitted, in order
    call,           \* the arguments of the function applied (SpecBuild, SpecClassify)
    result          \* its result, NoResult before the call returns

\* the state of the UI and of the workers
uiVars == <<worker, worker_thread, progressBar, uiQueue, uiWait, aborted,
            nruns, run, item, events>>

\* a function call of its own: convert_texture's command builder or
\* determine_color_space applied to one input
callVars == <<call, result>>

vars == <<worker, worker_thread, progressBar, uiQueue, uiWait, aborted,
          nruns, run, item, events, call, result>>

NoCall == [fn |-> "none"]
NoResult == [fn |-> "none"]

(***************************************************************************)
(* Backends and options.                                                   *)
(***************************************************************************)
Backends == {"imaketx", "txmake", "maketx"}

\* the options that select the builder: the two checkboxes and whether the
\* RenderMan root variable is set in the environment
BackendOptions ==
    [use_houdini_rat : BOOLEAN, use_renderman : BOOLEAN, renderman_root_set : BOOLEAN]

\* txmake_path is None unless renderman_root is non-empty (lines 148-150)
txmake_path_set(o) == o.renderman_root_set

\* the order of the three branches of convert_texture
SelectBackend(o) ==
    IF o.use_houdini_rat THEN "imaketx"
    ELSE IF o.use_renderman /\ txmake_path_set(o) THEN "txmake"
    ELSE "maketx"

(***************************************************************************)
(* subprocess.run as convert_texture calls it.                             *)
(***************************************************************************)
\* none of the three subprocess.run calls passes check=True
SubprocessCheck == FALSE

\* the exception subprocess.run raises: OSError when the process cannot be
\* spawned, CalledProcessError only under check=True with a nonzero code
SubprocessRaises(check, spawned, code) ==
    IF ~spawned THEN "OSError"
    ELSE IF check /\ code # 0 THEN "CalledProcessError"
    ELSE "none"

\* the final log line of a conversion whose process returned
ConvertedLine(b) ==
    CASE b = "imaketx" -> "Converted to .rat"
      [] b = "txmake"  -> "Converted to out_ext"
      [] OTHER         -> "Converted"

\* the log line of the except subprocess.CalledProcessError handlers
FailedLine(b) ==
    CASE b = "imaketx" -> "Failed to convert to .rat"
      [] b = "txmake"  -> "Failed to convert to .tex"
      [] OTHER         -> "Failed to convert to .tx"

SuccessLines == {ConvertedLine(b) : b \in Backends}
FailureLines == {FailedLine(b) : b \in Backends} \cup {"Error during conversion"}

\* log lines convert_texture emits before it calls subprocess.run
LinesBeforeProcess(b) ==
    CASE b = "imaketx" -> <<"Starting conversion", "imaketx command">>
      [] b = "txmake"  -> <<"Starting conversion", "Converting to RenderMan .tex",
                            "txmake command">>
      [] OTHER         -> <<"Starting conversion", "Converting to Arnold .tx">>

OutputLine(b) == IF b = "imaketx" THEN "imaketx output"
                 ELSE IF b = "txmake" THEN "txmake output" ELSE "maketx output"
ErrorsLine(b) == IF b = "imaketx" THEN "imaketx errors"
                 ELSE IF b = "txmake" THEN "txmake errors" ELSE "maketx errors"

\* which captured stream is no valid text: .decode() raises on it
Undecodable == {"none", "stdout", "stderr"}

AfterProcess_NoFinalLine(b, exc, hasOut, hasErr, bad) ==
    IF exc = "CalledProcessError" THEN [lines |-> <<FailedLine(b)>>, exc |-> "none"]
    ELSE IF exc # "none" THEN [lines |-> <<>>, exc |-> exc]
    ELSE [lines |-> (IF hasOut THEN <<OutputLine(b)>> ELSE <<>>)
                    \o (IF hasErr THEN <<ErrorsLine(b)>> ELSE <<>>),
          exc |-> "none"]

\* the try block of a builder once subprocess.run has returned or raised exc:
\* the log lines it emits and the exception that leaves convert_texture.
\* Only CalledProcessError is handled.  imaketx and maketx decode a stream
\* that is not empty when they log it; txmake decodes both streams first.
AfterProcess(b, exc, hasOut, hasErr, bad) ==
    IF exc = "CalledProcessError" THEN [lines |-> <<FailedLine(b)>>, exc |-> "none"]
    ELSE IF exc # "none" THEN [lines |-> <<>>, exc |-> exc]
    ELSE IF b = "txmake" /\ bad # "none"
         THEN [lines |-> <<>>, exc |-> "UnicodeDecodeError"]
    ELSE IF hasOut /\ bad = "stdout"
         THEN [lines |-> <<>>, exc |-> "UnicodeDecodeError"]
    ELSE IF hasErr /\ bad = "stderr"
         THEN [lines |-> IF hasOut THEN <<OutputLine(b)>> ELSE <<>>,
               exc |-> "UnicodeDecodeError"]
    ELSE [lines |-> (IF hasOut THEN <<OutputLine(b)>> ELSE <<>>)
                    \o (IF hasErr THEN <<ErrorsLine(b)>> ELSE <<>>)
                    \o <<ConvertedLine(b)>>,
          exc |-> "none"]

(***************************************************************************)
(* State of one run and of one texture.                                    *)
(***************************************************************************)
\* pc: "none" no worker yet; "started" thread started, run not entered;
\* "submit" submitting the group at i; "collect" in the as_completed loop;
\* "emit" after the for loop; "done" finishedSignal emitted; "raised" run
\* left by an exception
NoRunState ==
    [pc |-> "none", total |-> 0, batch_size |-> 0, backend |-> "maketx",
     mode |-> "folder", i |-> 0, k |-> 0, processed |-> 0, thread |-> "none"]

\* st: "new" not submitted; "queued" submitted, no pool thread yet; "running"
\* its external process is in flight; "finished" the future is complete;
\* "reported" its future was taken from as_completed
\* ext: the lowered extension of the texture's path (line 156)
NewItem ==
    [st |-> "new", exc |-> "none", code |-> 0, skipped |-> FALSE,
     dispatched |-> 0, log |-> <<>>, ext |-> "png"]

GroupOf_OneTooMany(r) ==
    {j \in 1..run[r].total : j > run[r].i /\ j <= run[r].i + run[r].batch_size + 1}

\* textures[i : i + batch_size] as the set of 1-based positions
GroupOf(r) ==
    {j \in 1..run[r].total : j > run[r].i /\ j <= run[r].i + run[r].batch_size}

\* conversions whose external process is in flight
InFlight(r) == {j \in 1..run[r].total : item[r][j].st = "running"}

Init ==
    /\ worker = NoRun
    /\ worker_thread = NoRun
    /\ progressBar = [max |-> 0, value |-> 0]
    /\ uiQueue = <<>>
    /\ uiWait = NoRun
    /\ aborted = FALSE
    /\ nruns = 0
    /\ run = [r \in Runs |-> NoRunState]
    /\ item = [r \in Runs |-> <<>>]
    /\ events = [r \in Runs |-> <<>>]
    /\ call = NoCall
    /\ result = NoResult

(***************************************************************************)
(* TxConverterUI.process_textures: a click on 'Process Textures' that      *)
(* selected n >= 1 textures.  There is no test of self.worker: the click   *)
(* is served whether or not a run is in flight.                            *)
(***************************************************************************)
Modes == {"folder", "dropped"}

\* line 159: the extensions convert_texture takes as already processed
OutputExts == {"tex", "tx", "b2r", "rat"}

\* the extensions of the textures of a batch run: a source image or a file
\* that is already an output
ItemExts == {"png", "tx"}

\* whether a texture list can hold a file with an output extension:
\* gather_textures keeps the valid source extensions only, a dropped file
\* list is taken as it is
CanBeOutputExt(mode) == mode = "dropped"

\* self.worker_thread = QtCore.QThread() rebinds the attribute.  When it held
\* the thread of a run in flight, that QThread object loses its last
\* reference while running: the Qt runtime either ends the process or the
\* object outlives the rebinding and its run goes on.
RebindOutcomes(old) == IF old = NoRun THEN {FALSE} ELSE BOOLEAN

NewRunState(n, bs, mode, o) ==
    [pc |-> "started", total |-> n, batch_size |-> bs,
     backend |-> SelectBackend(o), mode |-> mode,
     i |-> 0, k |-> 0, processed |-> 0, thread |-> "running"]

\* lines 1114-1143: the progress bar is reset, the thread and the worker
\* are created, the signals connected and the thread started.  exts[j] is
\* the extension of the j-th selected texture.
start_batch(n, bs, mode, o, exts) ==
    /\ progressBar' = [max |-> n, value |-> 0]
    /\ \E fatal \in RebindOutcomes(worker_thread) :
         IF fatal
         THEN /\ aborted' = TRUE
              /\ UNCHANGED <<worker, worker_thread, uiQueue, uiWait, nruns,
                             run, item, events>>
         ELSE /\ nruns' = nruns + 1
              /\ worker' = nruns + 1
              /\ worker_thread' = nruns + 1
              /\ run' = [run EXCEPT ![nruns + 1] = NewRunState(n, bs, mode, o)]
              /\ item' = [item EXCEPT ![nruns + 1] =
                             [j \in 1..n |-> [NewItem EXCEPT !.ext = exts[j]]]]
              /\ UNCHANGED <<uiQueue, uiWait, aborted, events>>

process_textures(limit, n, bs, mode, o, exts) ==
    /\ ~aborted
    /\ UNCHANGED callVars
    /\ uiWait = NoRun
    /\ nruns < limit
    /\ n >= 1
    /\ \A j \in 1..n : exts[j] \in OutputExts => CanBeOutputExt(mode)
    /\ start_batch(n, bs, mode, o, exts)

(***************************************************************************)
(* TextureWorker.run, on the worker's thread.                              *)
(***************************************************************************)
\* what range(0, total, batch_size) does at the head of the for loop
RangeOutcome(total, bs) ==
    IF bs = 0 THEN "ValueError"
    ELSE IF bs < 0 \/ total <= 0 THEN "empty"
    ELSE "iterate"

\* lines 108-113: total, processed = 0, the range of group starts
run_begin(r) ==
    /\ ~aborted
    /\ UNCHANGED callVars
    /\ run[r].pc = "started"
    /\ LET out == RangeOutcome(run[r].total, run[r].batch_size) IN
       run' = [run EXCEPT ![r].pc =
                  CASE out = "ValueError" -> "raised"
                    [] out = "empty"      -> "emit"
                    [] OTHER              -> "submit"]
    /\ UNCHANGED <<worker, worker_thread, progressBar, uiQueue, uiWait,
                   aborted, nruns, item, events>>

\* lines 114-119: executor.submit of the next texture of the group at i
run_submit(r) ==
    /\ ~aborted
    /\ UNCHANGED callVars
    /\ run[r].pc = "submit"
    /\ LET g == GroupOf(r)
           j == run[r].i + run[r].k + 1
       IN /\ j \in g
          /\ item' = [item EXCEPT ![r][j].st = "queued",
                                  ![r][j].dispatched = @ + 1]
          /\ run' = [run EXCEPT ![r].k = @ + 1,
                                ![r].pc = IF j + 1 \in g THEN "submit" ELSE "collect"]
    /\ UNCHANGED <<worker, worker_thread, progressBar, uiQueue, uiWait,
                   aborted, nruns, events>>

(***************************************************************************)
(* TextureWorker.convert_texture, on a thread of the group's pool.         *)
(***************************************************************************)
max_workers_OneLess(r) == run[r].batch_size - 1

\* ThreadPoolExecutor(max_workers=self.batch_size)
max_workers(r) == run[r].batch_size

\* lines 129-161 for an already-processed file; lines 129-222 (or 280, 330)
\* and the call of subprocess.run otherwise, which spawns the process or
\* raises OSError.  maketx is run with shell=True: what is spawned is the
\* shell, and a maketx executable that is missing is a nonzero exit code of
\* the shell (convert_texture_exit), not an OSError
convert_texture_start(r, j) ==
    /\ ~aborted
    /\ UNCHANGED callVars
    /\ j \in 1..run[r].total
    /\ item[r][j].st = "queued"
    /\ Cardinality(InFlight(r)) < max_workers(r)
    /\ \/ /\ item[r][j].ext \in OutputExts
          /\ item' = [item EXCEPT ![r][j].st = "finished",
                                  ![r][j].skipped = TRUE,
                                  ![r][j].log = <<"Starting conversion",
                                                  "Skipping already-processed file">>]
       \/ /\ item[r][j].ext \notin OutputExts
          /\ \E spawned \in BOOLEAN :
               LET after == AfterProcess(run[r].backend,
                                         SubprocessRaises(SubprocessCheck, spawned, 0),
                                         FALSE, FALSE, "none")
               IN item' = [item EXCEPT
                             ![r][j].st = IF spawned THEN "running" ELSE "finished",
                             ![r][j].exc = IF spawned THEN "none" ELSE after.exc,
                             ![r][j].log = LinesBeforeProcess(run[r].backend)
                                              \o (IF spawned THEN <<>> ELSE after.lines)]
    /\ UNCHANGED <<worker, worker_thread, progressBar, uiQueue, uiWait,
                   aborted, nruns, run, events>>

ExitCodes == {0, 1}

\* what the external process wrote: nothing; text on both streams; text on
\* both streams with bytes on stderr that are no valid text
ProcessOutputs ==
    {[hasOut |-> FALSE, hasErr |-> FALSE, bad |-> "none"],
     [hasOut |-> TRUE, hasErr |-> TRUE, bad |-> "none"],
     [hasOut |-> TRUE, hasErr |-> TRUE, bad |-> "stderr"]}

\* the external process exits: subprocess.run returns (or raises under
\* check=True) and the rest of the try block runs.  A stream that is empty
\* cannot be undecodable.
convert_texture_exit(r, j, code, hasOut, hasErr, bad) ==
    /\ ~aborted
    /\ UNCHANGED callVars
    /\ j \in 1..run[r].total
    /\ item[r][j].st = "running"
    /\ bad = "stdout" => hasOut
    /\ bad = "stderr" => hasErr
    /\ LET after == AfterProcess(run[r].backend,
                                 SubprocessRaises(SubprocessCheck, TRUE, code),
                                 hasOut, hasErr, bad)
       IN item' = [item EXCEPT ![r][j].st = "finished",
                               ![r][j].code = code,
                               ![r][j].exc = after.exc,
                               ![r][j].log = @ \o after.lines]
    /\ UNCHANGED <<worker, worker_thread, progressBar, uiQueue, uiWait,
                   aborted, nruns, run, events>>

(***************************************************************************)
(* The as_completed loop of run and the end of run.                        *)
(***************************************************************************)
Signal(r, sig, val) == [run |-> r, sig |-> sig, val |-> val]

\* the exception classes of the model; all derive from Exception
ExceptionKinds == {"OSError", "CalledProcessError", "UnicodeDecodeError"}

run_catches_only_CalledProcessError(exc) == exc = "CalledProcessError"

\* line 123, except Exception: what the try around future.result() catches
run_catches(exc) == exc \in ExceptionKinds

ProcessedAfter_SuccessOnly(r, j) ==
    IF item[r][j].exc # "none" THEN run[r].processed ELSE run[r].processed + 1

\* line 125, processed += 1, after the try statement
ProcessedAfter(r, j) == run[r].processed + 1

NextStart_OffByOne(r) == run[r].i + run[r].batch_size + 1

\* line 113: the next value of i in range(0, total, self.batch_size)
NextStart(r) == run[r].i + run[r].batch_size

\* lines 120-126 for one completed future; leaving the with block and
\* stepping the for loop once the group's last future is taken.  An
\* exception the try does not catch leaves run.
run_collect(r, j) ==
    /\ ~aborted
    /\ UNCHANGED callVars
    /\ run[r].pc = "collect"
    /\ j \in GroupOf(r)
    /\ item[r][j].st = "finished"
    /\ LET exc  == item[r][j].exc
           p    == ProcessedAfter(r, j)
           rest == {x \in GroupOf(r) \ {j} : item[r][x].st # "reported"}
           ni   == NextStart(r)
       IN IF exc # "none" /\ ~run_catches(exc)
          THEN /\ run' = [run EXCEPT ![r].pc = "raised"]
               /\ UNCHANGED <<item, events, uiQueue>>
          ELSE /\ item' = [item EXCEPT ![r][j].st = "reported",
                                       ![r][j].log = IF exc # "none"
                                                     THEN @ \o <<"Error during conversion">>
                                                     ELSE @]
               /\ events' = [events EXCEPT ![r] = Append(@, Signal(r, "progress", p))]
               /\ uiQueue' = Append(uiQueue, Signal(r, "progress", p))
               /\ run' = IF rest # {}
                         THEN [run EXCEPT ![r].processed = p]
                         ELSE [run EXCEPT ![r].processed = p,
                                          ![r].i = ni,
                                          ![r].k = 0,
                                          ![r].pc = IF ni < run[r].total
                                                    THEN "submit" ELSE "emit"]
    /\ UNCHANGED <<worker, worker_thread, progressBar, uiWait, aborted, nruns>>

\* line 127
run_finished(r) ==
    /\ ~aborted
    /\ UNCHANGED callVars
    /\ run[r].pc = "emit"
    /\ events' = [events EXCEPT ![r] = Append(@, Signal(r, "finished", 0))]
    /\ uiQueue' = Append(uiQueue, Signal(r, "finished", 0))
    /\ run' = [run EXCEPT ![r].pc = "done"]
    /\ UNCHANGED <<worker, worker_thread, progressBar, uiWait, aborted, nruns, item>>

(***************************************************************************)
(* The slots of the UI thread, served from its event queue.                *)
(***************************************************************************)
updateProgress ==
    /\ ~aborted
    /\ UNCHANGED callVars
    /\ uiWait = NoRun
    /\ uiQueue # <<>>
    /\ Head(uiQueue).sig = "progress"
    /\ progressBar' = [progressBar EXCEPT !.value = Head(uiQueue).val]
    /\ uiQueue' = Tail(uiQueue)
    /\ UNCHANGED <<worker, worker_thread, uiWait, aborted, nruns, run, item, events>>

\* lines 814-817: with worker_thread None the slot ends in AttributeError at
\* line 816; otherwise quit() and the blocking wait() on self.worker_thread
workerFinished ==
    /\ ~aborted
    /\ UNCHANGED callVars
    /\ uiWait = NoRun
    /\ uiQueue # <<>>
    /\ Head(uiQueue).sig = "finished"
    /\ uiQueue' = Tail(uiQueue)
    /\ uiWait' = worker_thread
    /\ UNCHANGED <<worker, worker_thread, progressBar, aborted, nruns, run,
                   item, events>>

\* wait() returns once the thread has left run; lines 818-819
workerFinished_joined ==
    /\ ~aborted
    /\ UNCHANGED callVars
    /\ uiWait # NoRun
    /\ run[uiWait].pc \in {"done", "raised"}
    /\ run' = [run EXCEPT ![uiWait].thread = "exited"]
    /\ worker' = NoRun
    /\ worker_thread' = NoRun
    /\ uiWait' = NoRun
    /\ UNCHANGED <<progressBar, uiQueue, aborted, nruns, item, events>>

(***************************************************************************)
(* Specifications.  Spec: one click on 'Process Textures' and the batch    *)
(* run it starts, up to MaxN textures, up to its completion signal (the    *)
(* signals stay queued).  SpecUI: up to MaxRuns clicks, runs of up to      *)
(* MaxUiN textures, and the UI thread serving its queue.                   *)
(***************************************************************************)
WorkerNext(nmax) ==
    \/ \E r \in Runs : run_begin(r)
    \/ \E r \in Runs : run_submit(r)
    \/ \E r \in Runs, j \in 1..nmax : convert_texture_start(r, j)
    \/ \E r \in Runs, j \in 1..nmax, code \in ExitCodes, io \in ProcessOutputs :
          convert_texture_exit(r, j, code, io.hasOut, io.hasErr, io.bad)
    \/ \E r \in Runs, j \in 1..nmax : run_collect(r, j)
    \/ \E r \in Runs : run_finished(r)

\* the clicks that start a batch run, while fewer than limit runs were started
ClickNext(limit, nmax) ==
    /\ nruns < limit
    /\ \E n \in 1..nmax, bs \in BatchSizes, mode \in Modes, o \in BackendOptions :
         \E exts \in [1..n -> ItemExts] : process_textures(limit, n, bs, mode, o, exts)

Next ==
    \/ ClickNext(1, MaxN)
    \/ WorkerNext(MaxN)

Spec == Init /\ [][Next]_vars

NextUI ==
    \/ ClickNext(MaxRuns, MaxUiN)
    \/ WorkerNext(MaxUiN)
    \/ updateProgress
    \/ workerFinished
    \/ workerFinished_joined

SpecUI == Init /\ [][NextUI]_vars

(***************************************************************************)
(* Claims about the batch scheduler (Spec).                                *)
(***************************************************************************)
\* the runs a worker was created for, with a concurrency of at least 1
RunsC1 == {r \in Runs : run[r].pc # "none" /\ run[r].batch_size >= 1}

\* progress 1, 2, ..., n followed by the completion signal
ExpectedEvents(r, n) ==
    [k \in 1..(n + 1) |-> IF k <= n THEN Signal(r, "progress", k)
                          ELSE Signal(r, "finished", 0)]

IsPrefix(s, t) == Len(s) <= Len(t) /\ \A k \in 1..Len(s) : s[k] = t[k]

HasLine(r, j, lines) == \E k \in 1..Len(item[r][j].log) : item[r][j].log[k] \in lines

\* C1: for a batch of N items and a concurrency C >= 1, whatever the order of
\* the completions, the signals run has emitted are at every moment a prefix
\* of progress(1), ..., progress(N), finished; a run that can take no further
\* step has emitted all of them, every item counted whether it succeeded,
\* failed or was skipped; finished is emitted once, after progress(N).
C1_ProgressThenFinished ==
    \A r \in RunsC1 :
        /\ IsPrefix(events[r], ExpectedEvents(r, run[r].total))
        /\ run[r].pc = "done" <=> Len(events[r]) = run[r].total + 1
        /\ ~ENABLED WorkerNext(MaxN) => events[r] = ExpectedEvents(r, run[r].total)

\* C1 witness: a finished run of 3 items, concurrency 2, with one skipped
\* item, one whose launch raised and one converted
C1_Witness ==
    \E r \in RunsC1 :
        /\ run[r].pc = "done" /\ run[r].total = 3 /\ run[r].batch_size = 2
        /\ Len(events[r]) = 4
        /\ \E a, b, c \in 1..3 :
              /\ item[r][a].skipped
              /\ item[r][b].exc = "OSError"
              /\ HasLine(r, c, SuccessLines)

\* the group a list position belongs to, for a concurrency bs >= 1
GroupIndex(j, bs) == (j - 1) \div bs

\* C2: with a concurrency C >= 1 at most C external processes are in flight
\* at once, and a texture of a later group is not even submitted before
\* every texture of the earlier groups has finished.
C2_BoundedConcurrency ==
    \A r \in RunsC1 :
        /\ Cardinality(InFlight(r)) <= run[r].batch_size
        /\ \A j, x \in 1..run[r].total :
              (/\ GroupIndex(j, run[r].batch_size) < GroupIndex(x, run[r].batch_size)
               /\ item[r][x].st # "new")
              => item[r][j].st \in {"finished", "reported"}

\* C2 witness: C = 2 processes in flight while the third texture waits for
\* the next group
C2_Witness ==
    \E r \in RunsC1 :
        /\ run[r].batch_size = 2 /\ run[r].total = 3
        /\ InFlight(r) = {1, 2}
        /\ item[r][3].st = "new"

\* C3: a conversion whose external process returned a nonzero exit code has
\* a failure line in its log and no 'Converted' line, for every backend.
C3_NonzeroExitIsFailure ==
    \A r \in Runs : \A j \in 1..run[r].total :
        (item[r][j].st \in {"finished", "reported"} /\ item[r][j].code # 0)
        => /\ HasLine(r, j, FailureLines)
           /\ ~HasLine(r, j, SuccessLines)

C5_EachItemOnce ==
    \A r \in RunsC1 :
        LET bs == run[r].batch_size
            n  == run[r].total
            submitted == {j \in 1..n : item[r][j].dispatched >= 1}
        IN /\ \A j \in 1..n : item[r][j].dispatched <= 1
           /\ run[r].i % bs = 0
           /\ run[r].pc \in {"submit", "collect"}
                 => /\ run[r].i < n
                    /\ submitted = 1..(run[r].i + run[r].k)
                    /\ run[r].k <= bs
                    /\ \A j \in 1..run[r].i : item[r][j].st = "reported"
           /\ run[r].pc = "collect"
                 => submitted = 1..(IF run[r].i + bs < n THEN run[r].i + bs ELSE n)
           /\ run[r].pc \in {"emit", "done"}
                 => /\ submitted = 1..n
                    /\ run[r].i >= n /\ run[r].i - bs < n

\* C5 witness: 3 textures with concurrency 2 ran as ceil(3/2) = 2 groups,
\* the last one smaller
C5_Witness ==
    \E r \in RunsC1 :
        /\ run[r].pc = "done" /\ run[r].total = 3 /\ run[r].batch_size = 2
        /\ run[r].i = 4
        /\ \A j \in 1..3 : item[r][j].dispatched = 1

(***************************************************************************)
(* Claims about the UI handlers (SpecUI).                                  *)
(***************************************************************************)
\* the runs in flight: a worker was created and its run has not ended
RunsInFlight == {r \in Runs : run[r].pc \in {"started", "submit", "collect", "emit"}}

\* C6: at most one batch run is in flight at any time, that is, a click on
\* 'Process Textures' while a run is active does not start a second run.
C6_OneRunInFlight == Cardinality(RunsInFlight) <= 1

(***************************************************************************)
(* Strings: a file name is a sequence of one-character strings.            *)
(***************************************************************************)
ToLower ==
    ("A" :> "a") @@ ("B" :> "b") @@ ("C" :> "c") @@ ("D" :> "d") @@ ("E" :> "e") @@ ("F" :> "f")
    @@ ("G" :> "g") @@ ("H" :> "h") @@ ("I" :> "i") @@ ("J" :> "j") @@ ("K" :> "k") @@ ("L" :> "l")
    @@ ("M" :> "m") @@ ("N" :> "n") @@ ("O" :> "o") @@ ("P" :> "p") @@ ("Q" :> "q") @@ ("R" :> "r")
    @@ ("S" :> "s") @@ ("T" :> "t") @@ ("U" :> "u") @@ ("V" :> "v") @@ ("W" :> "w") @@ ("X" :> "x")
    @@ ("Y" :> "y") @@ ("Z" :> "z")

LowerLetters ==
    {"a", "b", "c", "d", "e", "f", "g", "h", "i", "j", "k", "l", "m",
     "n", "o", "p", "q", "r", "s", "t", "u", "v", "w", "x", "y", "z"}

\* str.lower, one character
LowerChar(ch) == IF ch \in DOMAIN ToLower THEN ToLower[ch] ELSE ch

\* str.lower
lower(s) == [k \in 1..Len(s) |-> LowerChar(s[k])]

\* p occurs in s at position k
MatchAt(s, p, k) ==
    /\ k >= 1
    /\ k + Len(p) - 1 <= Len(s)
    /\ \A x \in 1..Len(p) : s[k + x - 1] = p[x]

\* p in s (the empty string is in every string)
Contains(s, p) == \E k \in 1..(Len(s) + 1) : MatchAt(s, p, k)

\* re.search of p followed by (?=[^a-z]) under re.IGNORECASE, s lowered: a
\* next character exists and is no letter
ContainsBeforeNonLetter(s, p) ==
    \E k \in 1..Len(s) :
        /\ MatchAt(s, p, k)
        /\ k + Len(p) <= Len(s)
        /\ s[k + Len(p)] \notin LowerLetters

\* re.search of p followed by (?![a-z]): the end of s or no lowercase letter
ContainsNotBeforeLetter(s, p) ==
    \E k \in 1..Len(s) :
        /\ MatchAt(s, p, k)
        /\ (k + Len(p) <= Len(s) => s[k + Len(p)] \notin LowerLetters)

\* p$ matches s
EndsWith(s, p) == MatchAt(s, p, Len(s) - Len(p) + 1)

ColorSpaces == {"raw", "acescg", "srgb_texture", "lin_srgb"}

\* the name of a color space as characters
ColorSpaceChars(cs) ==
    CASE cs = "raw"          -> <<"r", "a", "w">>
      [] cs = "acescg"       -> <<"a", "c", "e", "s", "c", "g">>
      [] cs = "srgb_texture" -> <<"s", "r", "g", "b", "_", "t", "e", "x", "t", "u", "r", "e">>
      [] OTHER               -> <<"l", "i", "n", "_", "s", "r", "g", "b">>

\* the alternatives of (_raw|_srgb_texture|_lin_srgb|_acescg)$
KnownSuffixes == {<<"_">> \o ColorSpaceChars(cs) : cs \in ColorSpaces}

(***************************************************************************)
(* detect_aces_version.  A config file is a sequence of lines, each line   *)
(* given by the markers it contains: "v13", "v10", "both" or "none".       *)
(* cfg: [path_set, isfile, opens, lines, raises_at]: open() succeeds or    *)
(* raises OSError; the readline call number raises_at raises               *)
(* UnicodeDecodeError (0: none does).                                      *)
(***************************************************************************)
\* for _ in range(500)
ReadLimit == 500

AcesVersions == {"1.3", "1.0.3", "unknown"}

\* the iterations of 'for _ in range(500)' that leave the loop: the
\* readline call raises, or returns '' at the end of the file (break), or
\* returns a line with a marker (return)
LoopExits(lines, raises_at) ==
    {k \in 1..ReadLimit :
        /\ k <= Len(lines) + 1
        /\ \/ k = raises_at
           \/ k = Len(lines) + 1
           \/ lines[k] # "none"}

\* lines 48-56 for the k-th iteration: the call of readline raises, or
\* there is no line, or the markers are tested, those of 1.3 first
ScanLine(lines, k, raises_at) ==
    IF k = raises_at THEN "UnicodeDecodeError"
    ELSE IF k > Len(lines) THEN "unknown"
    ELSE IF lines[k] \in {"v13", "both"} THEN "1.3"
    ELSE "1.0.3"

\* lines 47-56: the loop runs to the first iteration that leaves it; 500
\* iterations that do not fall out of the loop, to line 60
ScanLines(lines, raises_at) ==
    LET exits == LoopExits(lines, raises_at)
    IN IF exits = {} THEN "unknown"
       ELSE ScanLine(lines, CHOOSE k \in exits : \A x \in exits : k <= x, raises_at)

\* lines 46-56, the body of the try: a version, or the exception raised
try_read(cfg) ==
    IF ~cfg.opens THEN "OSError" ELSE ScanLines(cfg.lines, cfg.raises_at)

except_catches_OSErrorOnly(exc) == exc = "OSError"

\* line 57, a bare except
except_catches(exc) == TRUE

\* lines 57-60 for the outcome r of the try body; "raised" stands for an
\* exception that leaves detect_aces_version
after_try(r) ==
    IF r \in AcesVersions THEN r
    ELSE IF except_catches(r) THEN "unknown"
    ELSE "raised"

detect_aces_version(cfg) ==
    IF ~cfg.path_set \/ ~cfg.isfile THEN "unknown"
    ELSE after_try(try_read(cfg))

(***************************************************************************)
(* TextureWorker.convert_texture up to the call of subprocess.run: the     *)
(* output name, the bit depth and the argv of the three builders.          *)
(* c: [stem, ext, color_space, o (the worker's options), env, cfg]         *)
(***************************************************************************)
ExtLower ==
    [png |-> "png", JPG |-> "jpg", exr |-> "exr", tga |-> "tga", tx |-> "tx",
     TIF |-> "tif", jpeg |-> "jpeg", gif |-> "gif", bmp |-> "bmp", tiff |-> "tiff"]

\* line 156: ext_with_dot.lower()[1:]
ext_of(c) == ExtLower[c.ext]

\* lines 140-145
imaketx_path(c) ==
    IF c.env.imaketx THEN "<IMAKETX_PATH>"
    ELSE IF c.env.hfs THEN "<HFS>/bin/imaketx"
    ELSE "imaketx"

\* line 146
arnold_path(c) == IF c.env.arnold THEN "<MAKETX_PATH>" ELSE "maketx"

\* line 147: "" when the variable is unset
color_config(c) == IF c.cfg.path_set THEN "<OCIO>" ELSE ""

\* lines 148-150: None when the RenderMan root is unset
txmake_path(c) == IF c.env.renderman THEN "<RMANTREE>/bin/txmake" ELSE "None"

\* line 153
aces_version(c) == detect_aces_version(c.cfg)

HasKnownSuffix(base) == \E suf \in KnownSuffixes : EndsWith(lower(base), suf)

\* re.sub(r'(_raw|_srgb_texture|_lin_srgb|_acescg)$', '', base)
StripKnownSuffix(base) ==
    IF HasKnownSuffix(base)
    THEN LET suf == CHOOSE x \in KnownSuffixes : EndsWith(lower(base), x)
         IN SubSeq(base, 1, Len(base) - Len(suf))
    ELSE base

\* lines 164-176: the base name and the suffix of the output file
base_name(c) == IF c.o.rename_to_acescg THEN StripKnownSuffix(c.stem) ELSE c.stem

suffix(c) ==
    IF c.o.rename_to_acescg THEN <<"_", "a", "c", "e", "s", "c", "g">>
    ELSE IF c.o.add_suffix_selected /\ ~HasKnownSuffix(c.stem)
         THEN <<"_">> \o ColorSpaceChars(c.color_space)
    ELSE <<>>

\* lines 179-184, on the base name of lines 164-176
is_displacement(c) ==
    \E lit \in {<<"_", "d", "i", "s", "p">>, <<"_", "d", "i", "s", "p", "l", "a", "c", "e", "m", "e", "n", "t">>, <<"_", "z", "d", "i", "s", "p">>} :
        Contains(lower(base_name(c)), lit)

is_bump(c) ==
    \E lit \in {<<"_", "b", "u", "m", "p">>, <<"_", "h", "e", "i", "g", "h", "t">>} : Contains(lower(base_name(c)), lit)

is_normal(c) ==
    \/ \E lit \in {<<"_", "n", "o", "r", "m", "a", "l">>, <<"_", "n", "r", "m">>} : Contains(lower(base_name(c)), lit)
    \/ ContainsBeforeNonLetter(lower(base_name(c)), <<"_", "n", "o", "r", "m">>)

bit_depth_HdriForRaw(c) ==
    IF is_displacement(c) THEN "float"
    ELSE IF c.o.hdri_mode THEN "float"
    ELSE IF ext_of(c) \in {"jpg", "jpeg", "gif", "bmp"} THEN "uint8"
    ELSE IF ext_of(c) \in {"png", "tif", "tiff", "exr"} THEN "half"
    ELSE "uint16"

\* lines 187-198
bit_depth(c) ==
    IF is_displacement(c) THEN "float"
    ELSE IF c.o.hdri_mode /\ c.color_space # "raw" THEN "float"
    ELSE IF ext_of(c) \in {"jpg", "jpeg", "gif", "bmp"} THEN "uint8"
    ELSE IF ext_of(c) \in {"png", "tif", "tiff", "exr"} THEN "half"
    ELSE "uint16"

\* lines 207-218
imaketx_color_args(c) ==
    IF c.color_space \notin {"raw", "acescg"}
    THEN IF color_config(c) # ""
         THEN <<"--colormanagement", "ocio", "--colorconvert",
                IF c.color_space = "lin_srgb"
                THEN (IF aces_version(c) = "1.3" THEN "Linear Rec.709 (sRGB)" ELSE "lin_srgb")
                ELSE (IF aces_version(c) = "1.3" THEN "sRGB - Texture" ELSE "srgb_texture"),
                "ACEScg">>
         ELSE <<"--colormanagement", "builtin">>
    ELSE <<>>

\* lines 204-220
imaketx_cmd(c) ==
    <<imaketx_path(c), "-v", "--format", "RAT">> \o imaketx_color_args(c)
        \o <<"<texture>", "<out_file>">>

\* lines 253-267
txmake_color_args(c) ==
    IF c.color_space \notin {"raw", "acescg"} /\ color_config(c) # ""
    THEN IF c.color_space = "lin_srgb"
         THEN IF aces_version(c) = "1.3"
              THEN <<"-ocioconvert", "Linear Rec.709 (sRGB)", "ACEScg">>
              ELSE <<"-ocioconvert", "lin_srgb", "ACES - ACEScg">>
         ELSE IF c.color_space = "srgb_texture"
         THEN IF aces_version(c) = "1.3"
              THEN <<"-ocioconvert", "sRGB - Texture", "ACEScg">>
              ELSE <<"-ocioconvert", "srgb_texture", "ACES - ACEScg">>
         ELSE <<>>
    ELSE <<>>

\* line 269
is_bumprough(c) == c.o.use_renderman_bumprough /\ (is_bump(c) \/ is_normal(c))

\* lines 244-280
txmake_cmd(c) ==
    <<txmake_path(c), "-format", "openexr">>
        \o (IF c.o.use_compression THEN <<"-compression", "zip">> ELSE <<>>)
        \o (IF bit_depth(c) = "half" THEN <<"-half">>
            ELSE IF bit_depth(c) = "float" THEN <<"-float">> ELSE <<>>)
        \o <<"-resize", "round-", "-mode", "periodic">>
        \o txmake_color_args(c)
        \o (IF is_bumprough(c)
            THEN IF is_normal(c)
                 THEN <<"-bumprough", "2", "0", "1", "0", "0", "1">>
                 ELSE <<"-bumprough", "2", "0", "0", "0", "0", "1">>
            ELSE <<>>)
        \o <<"<texture>", "<out_file>">>

maketx_color_args_RawOnly(c) ==
    IF c.color_space # "raw" /\ color_config(c) # ""
    THEN <<"--colorconfig", color_config(c)>>
         \o (IF c.color_space = "lin_srgb"
             THEN IF aces_version(c) = "1.3"
                  THEN <<"--colorconvert", "Linear Rec.709 (sRGB)", "ACEScg">>
                  ELSE <<"--colorconvert", "lin_srgb", "ACES - ACEScg">>
             ELSE IF c.color_space = "srgb_texture"
             THEN IF aces_version(c) = "1.3"
                  THEN <<"--colorconvert", "sRGB - Texture", "ACEScg">>
                  ELSE <<"--colorconvert", "srgb_texture", "ACES - ACEScg">>
             ELSE <<>>)
    ELSE <<>>

maketx_color_args_KnownVersionOnly(c) ==
    IF c.color_space \notin {"raw", "acescg"} /\ color_config(c) # ""
       /\ aces_version(c) # "unknown"
    THEN <<"--colorconfig", color_config(c)>>
         \o (IF c.color_space = "lin_srgb"
             THEN IF aces_version(c) = "1.3"
                  THEN <<"--colorconvert", "Linear Rec.709 (sRGB)", "ACEScg">>
                  ELSE <<"--colorconvert", "lin_srgb", "ACES - ACEScg">>
             ELSE IF aces_version(c) = "1.3"
                  THEN <<"--colorconvert", "sRGB - Texture", "ACEScg">>
                  ELSE <<"--colorconvert", "srgb_texture", "ACES - ACEScg">>)
    ELSE <<>>

\* lines 313-328
maketx_color_args(c) ==
    IF c.color_space \notin {"raw", "acescg"} /\ color_config(c) # ""
    THEN <<"--colorconfig", color_config(c)>>
         \o (IF c.color_space = "lin_srgb"
             THEN IF aces_version(c) = "1.3"
                  THEN <<"--colorconvert", "Linear Rec.709 (sRGB)", "ACEScg">>
                  ELSE <<"--colorconvert", "lin_srgb", "ACES - ACEScg">>
             ELSE IF c.color_space = "srgb_texture"
             THEN IF aces_version(c) = "1.3"
                  THEN <<"--colorconvert", "sRGB - Texture", "ACEScg">>
                  ELSE <<"--colorconvert", "srgb_texture", "ACES - ACEScg">>
             ELSE <<>>)
    ELSE <<>>

\* lines 300-328
maketx_cmd(c) ==
    <<arnold_path(c), "-v", "-o", "<arnold_out>", "-u", "--format", "exr",
      "-d", bit_depth(c)>>
        \o (IF c.o.use_compression /\ ~is_displacement(c)
            THEN <<"--compression", "dwaa">> ELSE <<>>)
        \o <<"--oiio", "<texture>">>
        \o maketx_color_args(c)

backend_of_NoFallback(c) ==
    IF c.o.use_houdini_rat THEN "imaketx"
    ELSE IF c.o.use_renderman THEN "txmake"
    ELSE "maketx"

\* the branch of convert_texture that builds the command (lines 203, 241)
backend_of(c) ==
    IF c.o.use_houdini_rat THEN "imaketx"
    ELSE IF c.o.use_renderman /\ txmake_path(c) # "None" THEN "txmake"
    ELSE "maketx"

\* the extension parts of the output file
out_ext(c) ==
    CASE backend_of(c) = "imaketx" -> <<"rat">>
      [] backend_of(c) = "txmake"  -> IF is_bumprough(c) THEN <<"b2r">>
                                      ELSE <<ext_of(c), "tex">>
      [] OTHER                     -> <<"tx">>

\* convert_texture up to subprocess.run: nothing is built for a file that
\* already has an output extension (lines 159-161)
convert_texture_command(c) ==
    IF ext_of(c) \in OutputExts
    THEN [fn |-> "convert_texture", skipped |-> TRUE, backend |-> "none",
          argv |-> <<>>, out_base |-> <<>>, out_ext |-> <<>>, bit_depth |-> "none"]
    ELSE [fn |-> "convert_texture", skipped |-> FALSE, backend |-> backend_of(c),
          argv |-> CASE backend_of(c) = "imaketx" -> imaketx_cmd(c)
                     [] backend_of(c) = "txmake"  -> txmake_cmd(c)
                     [] OTHER                     -> maketx_cmd(c),
          out_base |-> base_name(c) \o suffix(c),
          out_ext |-> out_ext(c),
          bit_depth |-> bit_depth(c)]

(***************************************************************************)
(* SpecBuild: convert_texture's command builder applied to one input.      *)
(***************************************************************************)
\* the worker's options (TextureWorker.__init__)
WorkerOptions ==
    [rename_to_acescg : BOOLEAN, add_suffix_selected : BOOLEAN,
     use_compression : BOOLEAN, use_renderman : BOOLEAN, hdri_mode : BOOLEAN,
     use_renderman_bumprough : BOOLEAN, use_houdini_rat : BOOLEAN]

\* which of the tool variables are set in the environment
ToolEnvs == [imaketx : BOOLEAN, hfs : BOOLEAN, arnold : BOOLEAN, renderman : BOOLEAN]

\* a color configuration that, when it is a file, is read without error
ConfigFile(path_set, isfile, lines) ==
    [path_set |-> path_set, isfile |-> isfile, opens |-> isfile, lines |-> lines,
     raises_at |-> 0]

\* the color configuration: the variable unset; set to a path that is no
\* file; set to a file without marker, of either generation, or whose first
\* marker line holds markers of both; set to a file that cannot be opened
ConfigFiles ==
    {ConfigFile(FALSE, FALSE, <<>>),
     ConfigFile(TRUE, FALSE, <<>>),
     ConfigFile(TRUE, TRUE, <<"none">>),
     ConfigFile(TRUE, TRUE, <<"none", "v13", "v10">>),
     ConfigFile(TRUE, TRUE, <<"v10", "v13">>),
     ConfigFile(TRUE, TRUE, <<"both">>),
     [ConfigFile(TRUE, TRUE, <<"v13">>) EXCEPT !.opens = FALSE]}

BuildStems ==
    {<<"a">>, <<"a", "_", "D", "i", "s", "p">>, <<"a", "_", "b", "u", "m", "p">>, <<"a", "_", "N", "r", "m">>, <<"a", "_", "n", "o", "r", "m">>, <<"a", "_", "R", "A", "W">>}

BuildExts == {"png", "JPG", "exr", "tga", "tx", "TIF", "jpeg", "gif", "bmp", "tiff"}

DefaultToolEnv == [imaketx |-> FALSE, hfs |-> FALSE, arnold |-> TRUE, renderman |-> TRUE]

DefaultConfig == ConfigFile(TRUE, TRUE, <<"v10", "v13">>)

\* the inputs of the builder: every combination of options, color space and
\* configuration for a plain .png; every file name and extension with the
\* naming options; every tool environment with the backend options; every
\* file name, extension and color space with the HDRI and backend options
BuildInputFamily(c) ==
    \/ /\ c.stem = <<"a", "_", "N", "r", "m">> /\ c.ext = "png"
       /\ c.env \in {DefaultToolEnv, [DefaultToolEnv EXCEPT !.renderman = FALSE]}
    \/ /\ c.cfg = DefaultConfig /\ c.env = DefaultToolEnv
       /\ ~c.o.use_compression /\ ~c.o.hdri_mode
    \/ /\ c.stem = <<"a", "_", "n", "o", "r", "m">> /\ c.cfg = DefaultConfig
       /\ ~c.o.rename_to_acescg /\ ~c.o.add_suffix_selected /\ ~c.o.use_compression
    \/ /\ c.cfg = DefaultConfig /\ c.env = DefaultToolEnv
       /\ ~c.o.rename_to_acescg /\ ~c.o.add_suffix_selected /\ ~c.o.use_compression
       /\ ~c.o.use_renderman_bumprough

BuildInputSpace ==
    [fn : {"convert_texture"}, stem : BuildStems, ext : BuildExts,
     color_space : ColorSpaces, o : WorkerOptions, env : ToolEnvs, cfg : ConfigFiles]

InitBuild ==
    /\ Init!1 /\ Init!2 /\ Init!3 /\ Init!4 /\ Init!5
    /\ Init!6 /\ Init!7 /\ Init!8 /\ Init!9 /\ Init!10
    /\ call \in BuildInputSpace
    /\ BuildInputFamily(call)
    /\ result = NoResult

\* the call returns
convert_texture_built ==
    /\ call.fn = "convert_texture"
    /\ result = NoResult
    /\ result' = convert_texture_command(call)
    /\ UNCHANGED <<call, uiVars>>

NextBuild == convert_texture_built

SpecBuild == InitBuild /\ [][NextBuild]_vars

(***************************************************************************)
(* Claims about the command builders (SpecBuild).                          *)
(***************************************************************************)
ColorTransformFlags ==
    {"--colorconfig", "--colorconvert", "-ocioconvert", "--colormanagement"}

ArgvHas(argv, flags) == \E k \in 1..Len(argv) : argv[k] \in flags

\* C7: for a RAW or ACEScg item the argv built by whichever backend is
\* selected holds no color-transform flag, whatever the options, the config
\* path and the detected config version.
C7_NoTransformForRawAcescg ==
    (result # NoResult /\ call.fn = "convert_texture"
        /\ call.color_space \in {"raw", "acescg"})
    => ~ArgvHas(result.argv, ColorTransformFlags)

\* C7 witness: an ACEScg item built for maketx with a resolved 1.3 config;
\* the sRGB-texture item of the same options does get the flags
C7_Witness ==
    /\ result # NoResult /\ call.fn = "convert_texture"
    /\ call.color_space = "acescg"
    /\ result.backend = "maketx"
    /\ color_config(call) # "" /\ aces_version(call) = "1.3"
    /\ Len(result.argv) > 0
    /\ ArgvHas(maketx_cmd([call EXCEPT !.color_space = "srgb_texture"]),
               ColorTransformFlags)

\* a call of the builder has returned a command
Built == result # NoResult /\ call.fn = "convert_texture" /\ ~result.skipped

\* sub stands in argv, its elements next to each other
ArgvHasRun(argv, sub) ==
    \E k \in 1..Len(argv) :
        /\ k + Len(sub) - 1 <= Len(argv)
        /\ \A x \in 1..Len(sub) : argv[k + x - 1] = sub[x]

\* the builders an argv comes from, by the format argument only that builder
\* writes: --format RAT, -format openexr, --format exr ... --oiio
BuildersOf(argv) ==
    {b \in Backends :
        CASE b = "imaketx" -> ArgvHasRun(argv, <<"--format", "RAT">>)
          [] b = "txmake"  -> ArgvHasRun(argv, <<"-format", "openexr">>)
          [] OTHER         -> ArgvHasRun(argv, <<"--format", "exr">>)
                              /\ ArgvHas(argv, {"--oiio"})}

\* the renderer-specific backend the checkboxes select has no executable
\* location in the environment
SelectedToolUnresolved ==
    IF call.o.use_houdini_rat THEN ~call.env.imaketx /\ ~call.env.hfs
    ELSE call.o.use_renderman /\ ~call.env.renderman

\* C15 as stated: one builder per item, and maketx whenever the selected
\* renderer-specific backend (txmake or imaketx) has no executable location
\* in the environment.
C15_FallbackToMaketx ==
    Built => /\ Cardinality(BuildersOf(result.argv)) = 1
             /\ SelectedToolUnresolved => BuildersOf(result.argv) = {"maketx"}

\* C15 amended: exactly one builder is used for each item.  With the imaketx
\* checkbox set it is always imaketx, run from IMAKETX_PATH, else from
\* <HFS>/bin/imaketx, else as the bare command imaketx; otherwise, with the
\* RenderMan checkbox set, it is txmake when the RenderMan root is set and
\* maketx when it is not; otherwise maketx.
C15_OneBuilderPerItem ==
    Built =>
        /\ Cardinality(BuildersOf(result.argv)) = 1
        /\ IF call.o.use_houdini_rat
           THEN /\ BuildersOf(result.argv) = {"imaketx"}
                /\ result.argv[1] = (IF call.env.imaketx THEN "<IMAKETX_PATH>"
                                     ELSE IF call.env.hfs THEN "<HFS>/bin/imaketx"
                                     ELSE "imaketx")
           ELSE IF call.o.use_renderman /\ call.env.renderman
           THEN /\ BuildersOf(result.argv) = {"txmake"}
                /\ result.argv[1] = "<RMANTREE>/bin/txmake"
           ELSE /\ BuildersOf(result.argv) = {"maketx"}
                /\ result.argv[1] = (IF call.env.arnold THEN "<MAKETX_PATH>" ELSE "maketx")

\* C15 witness: the RenderMan checkbox is set, the RenderMan root is not,
\* and the command built is maketx's
C15_Witness ==
    /\ Built
    /\ call.o.use_renderman /\ ~call.o.use_houdini_rat /\ ~call.env.renderman
    /\ BuildersOf(result.argv) = {"maketx"}

\* the names of the source color space in a config of the older generation
OlderName(cs) == IF cs = "lin_srgb" THEN "lin_srgb" ELSE "srgb_texture"

NewerNames == {"Linear Rec.709 (sRGB)", "sRGB - Texture"}

\* C17 as stated: when the color configuration is missing or malformed (the
\* variable unset, the path no file, or no marker found, so that the version
\* is unknown) the command is built and its argv holds no color-transform
\* flag, for every color space and backend.
C17_NoFlagsWithoutConfig ==
    (Built /\ aces_version(call) = "unknown")
    => /\ Len(result.argv) > 0
       /\ ~ArgvHas(result.argv, ColorTransformFlags)

\* C17 amended: when the detected version is unknown the command is still
\* built.  With the config variable unset, the argv of maketx and txmake
\* holds no color-transform flag and that of imaketx only
\* '--colormanagement builtin' (for a color space other than RAW and
\* ACEScg).  With the variable set (to a path that is no file, or to a file
\* without marker) an item whose color space is not RAW or ACEScg gets the
\* transform flags with the names of the older config generation.
C17_UnknownVersionUsesOlderNames ==
    (Built /\ aces_version(call) = "unknown")
    => LET argv == result.argv
           b    == CHOOSE x \in BuildersOf(argv) : TRUE
           cs   == call.color_space
       IN /\ Len(argv) > 0
          /\ ~ArgvHas(argv, NewerNames)
          /\ IF cs \in {"raw", "acescg"} THEN ~ArgvHas(argv, ColorTransformFlags)
             ELSE IF ~call.cfg.path_set
             THEN IF b = "imaketx"
                  THEN /\ ArgvHasRun(argv, <<"--colormanagement", "builtin">>)
                       /\ ~ArgvHas(argv, {"--colorconvert", "--colorconfig"})
                  ELSE ~ArgvHas(argv, ColorTransformFlags)
             ELSE CASE b = "imaketx" ->
                         ArgvHasRun(argv, <<"--colormanagement", "ocio", "--colorconvert",
                                            OlderName(cs), "ACEScg">>)
                    [] b = "txmake" ->
                         ArgvHasRun(argv, <<"-ocioconvert", OlderName(cs), "ACES - ACEScg">>)
                    [] OTHER ->
                         ArgvHasRun(argv, <<"--colorconfig", "<OCIO>", "--colorconvert",
                                            OlderName(cs), "ACES - ACEScg">>)

\* C17 witness: the config variable names a path that is no file, and the
\* maketx command of an sRGB-texture item holds the transform flags
C17_Witness ==
    /\ Built
    /\ call.cfg.path_set /\ ~call.cfg.isfile
    /\ call.color_space = "srgb_texture"
    /\ BuildersOf(result.argv) = {"maketx"}
    /\ ArgvHasRun(result.argv, <<"--colorconvert", "srgb_texture", "ACES - ACEScg">>)

\* the stem names a displacement map (the three names of line 180)
DisplacementStem ==
    \E lit \in {<<"_", "d", "i", "s", "p">>,
                <<"_", "d", "i", "s", "p", "l", "a", "c", "e", "m", "e", "n", "t">>,
                <<"_", "z", "d", "i", "s", "p">>} :
        Contains(lower(call.stem), lit)

\* C19: the bit depth of an item is float if the stem is a displacement
\* map; otherwise float if HDRI mode is on and the color space is not RAW;
\* otherwise uint8 for jpg/jpeg/gif/bmp, half for png/tif/tiff/exr and uint16
\* for any other extension; the backend, the tool environment, the config
\* and the other options do not enter.  maketx gets it as '-d <depth>',
\* txmake as -half or -float.
C19_BitDepth ==
    Built =>
        LET e == ExtLower[call.ext]
            depth == IF DisplacementStem THEN "float"
                     ELSE IF call.o.hdri_mode /\ call.color_space # "raw" THEN "float"
                     ELSE IF e \in {"jpg", "jpeg", "gif", "bmp"} THEN "uint8"
                     ELSE IF e \in {"png", "tif", "tiff", "exr"} THEN "half"
                     ELSE "uint16"
        IN /\ result.bit_depth = depth
           /\ BuildersOf(result.argv) = {"maketx"} => ArgvHasRun(result.argv, <<"-d", depth>>)
           /\ BuildersOf(result.argv) = {"txmake"} =>
                 /\ ArgvHas(result.argv, {"-half"}) <=> depth = "half"
                 /\ ArgvHas(result.argv, {"-float"}) <=> depth = "float"

\* C19 witness: a RAW .tga that is no displacement map, HDRI mode on, built
\* for maketx with 16-bit integers
C19_Witness ==
    /\ Built
    /\ call.o.hdri_mode /\ call.color_space = "raw" /\ call.ext = "tga"
    /\ ~DisplacementStem
    /\ ArgvHasRun(result.argv, <<"-d", "uint16">>)

\* the source and target names that follow the transform flag in argv
TransformPair(argv) ==
    LET k == CHOOSE x \in 1..Len(argv) : argv[x] \in {"--colorconvert", "-ocioconvert"}
    IN <<argv[k + 1], argv[k + 2]>>

\* C22: for a color space other than RAW and ACEScg, a resolved config path
\* and every detected version, the command of imaketx names the same source
\* and target of the color transform as the commands of maketx and txmake
\* for the same item.
C22_SameTransformPair ==
    (Built /\ call.color_space \notin {"raw", "acescg"} /\ color_config(call) # "")
    => /\ TransformPair(imaketx_cmd(call)) = TransformPair(maketx_cmd(call))
       /\ TransformPair(imaketx_cmd(call)) = TransformPair(txmake_cmd(call))

(***************************************************************************)
(* TxConverterUI.determine_color_space.                                    *)
(* c: [stem, ext, tif_srgb, settings]; settings: [patterns,                *)
(* custom_patterns], one token and one list of substrings per color space. *)
(* Under SpecClassify c also holds naming_option, whether the add-suffix   *)
(* or the rename-to-ACEScg checkbox of the UI is checked during the call:   *)
(* determine_color_space does not read either.                             *)
(***************************************************************************)
ClassifyExtLower ==
    [exr |-> "exr", EXR |-> "exr", tif |-> "tif", tiff |-> "tiff",
     png |-> "png", jpg |-> "jpg", PNG |-> "png", tx |-> "tx", txt |-> "txt"]

\* the callers' os.path.splitext(tex)[1].lower() (lines 848, 986, 1094),
\* without the dot
extension_of(c) == ClassifyExtLower[c.ext]

\* lines 898-915: the lowered token of a color space, then its lowered
\* custom substrings
pattern_list(c, cs) ==
    <<lower(c.settings.patterns[cs])>>
        \o [k \in 1..Len(c.settings.custom_patterns[cs]) |->
               lower(c.settings.custom_patterns[cs][k])]

\* lines 917-918
base_lower(c) == lower(c.stem)

\* any(sub in base_lower for sub in <list>)
any_in_base(c, cs) ==
    \E k \in 1..Len(pattern_list(c, cs)) : Contains(base_lower(c), pattern_list(c, cs)[k])

\* the literal alternatives of RAW_DATA_PATTERN (lines 941-946)
RawDataLiterals ==
    {<<"_", "d", "e", "p", "t", "h">>, <<"_", "d", "i", "s", "p">>, <<"_", "d", "i", "s", "p", "l", "a", "c", "e", "m", "e", "n", "t">>,
     <<"_", "z", "d", "i", "s", "p">>, <<"_", "n", "o", "r", "m", "a", "l">>, <<"_", "n", "r", "m">>,
     <<"_", "n", "o", "r", "m">>, <<"_", "m", "a", "s", "k">>, <<"_", "r", "o", "u", "g", "h">>,
     <<"_", "m", "e", "t", "a", "l">>, <<"_", "g", "l", "o", "s", "s">>, <<"_", "s", "p", "e", "c">>,
     <<"_", "a", "o">>, <<"_", "c", "a", "v", "i", "t", "y">>, <<"_", "b", "u", "m", "p">>,
     <<"_", "h", "e", "i", "g", "h", "t">>, <<"_", "o", "p", "a", "c", "i", "t", "y">>, <<"_", "r", "o", "u", "g", "h", "n", "e", "s", "s">>,
     <<"_", "r", "o", "u", "g", "h", "n", "e", "s">>, <<"_", "s", "p", "e", "c", "u", "l", "a", "r", "i", "t", "y">>, <<"_", "s", "p", "e", "c", "s">>,
     <<"_", "m", "e", "t", "a", "l", "n", "e", "s", "s">>, <<"_", "m", "e", "t", "a", "l", "n", "e", "s">>, <<"s", "p", "c", "r">>,
     <<"b", "m", "p">>, <<"b", "u", "m", "p">>, <<"h", "i", "g", "h", "t">>,
     <<"d", "i", "s", "p">>, <<"r", "o", "u", "g", "h">>, <<"e", "m", "m">>,
     <<"e", "m", "i", "s", "s", "i", "o", "n">>, <<"s", "p", "e", "c">>, <<"n", "o", "r", "m">>,
     <<"n", "o", "r", "m", "a", "l">>}

\* re.search(RAW_DATA_PATTERN, base_lower): a literal alternative, or _n or
\* _r not followed by a lowercase letter
matches_RAW_DATA_PATTERN(b) ==
    \/ \E lit \in RawDataLiterals : Contains(b, lit)
    \/ ContainsNotBeforeLetter(b, <<"_", "n">>)
    \/ ContainsNotBeforeLetter(b, <<"_", "r">>)

new_name_OnlyWithoutToken(c, cs) ==
    IF Contains(lower(c.stem), lower(c.settings.patterns[cs]))
    THEN [stem |-> c.stem, ext |-> c.ext]
    ELSE [stem |-> c.stem \o c.settings.patterns[cs], ext |-> c.ext]

\* re.sub(r'(\.[^.]+)$', f"{p}\\1", filename): the token before the extension
new_name(c, cs) == [stem |-> c.stem \o c.settings.patterns[cs], ext |-> c.ext]

Classified(c, cs, hint) ==
    [fn |-> "determine_color_space", color_space |-> cs,
     additional_options |-> hint, new_name |-> new_name(c, cs)]

token_level_RawFirst(c) ==
    IF any_in_base(c, "raw") THEN "raw"
    ELSE IF any_in_base(c, "acescg") THEN "acescg"
    ELSE IF any_in_base(c, "srgb_texture") THEN "srgb_texture"
    ELSE IF any_in_base(c, "lin_srgb") THEN "lin_srgb"
    ELSE "none"

\* lines 920-938: the color space of the first list with a match, "none"
\* when no list matches
token_level(c) ==
    IF any_in_base(c, "acescg") THEN "acescg"
    ELSE IF any_in_base(c, "raw") THEN "raw"
    ELSE IF any_in_base(c, "srgb_texture") THEN "srgb_texture"
    ELSE IF any_in_base(c, "lin_srgb") THEN "lin_srgb"
    ELSE "none"

extension_level_TifOnly(c) ==
    IF extension_of(c) = "exr" THEN "lin_srgb"
    ELSE IF extension_of(c) \in {"tif"}
         THEN (IF c.tif_srgb THEN "srgb_texture" ELSE "lin_srgb")
    ELSE "srgb_texture"

\* lines 951-967
extension_level(c) ==
    IF extension_of(c) = "exr" THEN "lin_srgb"
    ELSE IF extension_of(c) \in {"tif", "tiff"}
         THEN (IF c.tif_srgb THEN "srgb_texture" ELSE "lin_srgb")
    ELSE "srgb_texture"

pattern_level_AfterExr(c) ==
    IF extension_of(c) = "exr" THEN Classified(c, "lin_srgb", "")
    ELSE IF matches_RAW_DATA_PATTERN(base_lower(c)) THEN Classified(c, "raw", "-d float")
    ELSE Classified(c, extension_level(c), "")

\* lines 940-967: the raw data names, then the extension
pattern_level(c) ==
    IF matches_RAW_DATA_PATTERN(base_lower(c)) THEN Classified(c, "raw", "-d float")
    ELSE Classified(c, extension_level(c), "")

\* lines 889-967
determine_color_space(c) ==
    IF token_level(c) # "none"
    THEN Classified(c, token_level(c), IF token_level(c) = "raw" THEN "-d float" ELSE "")
    ELSE pattern_level(c)

(***************************************************************************)
(* SpecClassify: determine_color_space applied to one file name.           *)
(***************************************************************************)
\* largest number of fragments a file name stem is made of
MaxParts == 2

StemFragments ==
    {<<"w", "o", "o", "d">>, <<"_", "R", "a", "w">>, <<"_", "a", "c", "e", "s", "c", "g">>,
     <<"_", "s", "r", "g", "b", "_", "t", "e", "x", "t", "u", "r", "e">>, <<"_", "l", "i", "n", "_", "s", "r", "g", "b">>, <<"_", "n", "o", "r", "m", "a", "l">>,
     <<"_", "n">>, <<"D", "a", "t", "a">>, <<"_", "r", "w">>,
     <<"2">>, <<"A", "C", "E", "S">>, <<"_", "m", "a", "s", "k">>}

RECURSIVE StemsOf(_)
\* the stems of 1..n fragments
StemsOf(n) ==
    IF n = 0 THEN {}
    ELSE IF n = 1 THEN StemFragments
    ELSE StemsOf(n - 1) \cup {s \o f : s \in StemsOf(n - 1), f \in StemFragments}

ClassifyExts == {"exr", "EXR", "tif", "tiff", "png", "jpg"}

\* load_user_settings (lines 598-611)
DefaultPatterns ==
    [raw |-> <<"_", "r", "a", "w">>, lin_srgb |-> <<"_", "l", "i", "n", "_", "s", "r", "g", "b">>,
     acescg |-> <<"_", "a", "c", "e", "s", "c", "g">>, srgb_texture |-> <<"_", "s", "r", "g", "b", "_", "t", "e", "x", "t", "u", "r", "e">>]

NoCustomPatterns == [raw |-> <<>>, lin_srgb |-> <<>>, acescg |-> <<>>, srgb_texture |-> <<>>]

\* the settings of the model: the defaults; extra substrings for every color
\* space; other tokens for RAW and ACEScg; a blank linear-sRGB token
ClassifySettings ==
    {[patterns |-> DefaultPatterns, custom_patterns |-> NoCustomPatterns],
     [patterns |-> DefaultPatterns,
      custom_patterns |-> [raw |-> <<<<"D", "a", "t", "a">>>>, lin_srgb |-> <<<<"L", "I", "N">>>>,
                           acescg |-> <<<<"A", "c", "e", "s">>>>, srgb_texture |-> <<<<"c", "o", "l">>, <<"w", "o", "o", "d">>>>]],
     [patterns |-> [DefaultPatterns EXCEPT !.raw = <<"_", "R", "W">>, !.acescg = <<"_", "A", "C", "G">>],
      custom_patterns |-> NoCustomPatterns],
     [patterns |-> [DefaultPatterns EXCEPT !.lin_srgb = <<>>],
      custom_patterns |-> NoCustomPatterns]}

InitClassify ==
    /\ Init!1 /\ Init!2 /\ Init!3 /\ Init!4 /\ Init!5
    /\ Init!6 /\ Init!7 /\ Init!8 /\ Init!9 /\ Init!10
    /\ call \in [fn : {"determine_color_space"}, stem : StemsOf(MaxParts),
                 ext : ClassifyExts, tif_srgb : BOOLEAN, settings : ClassifySettings,
                 naming_option : BOOLEAN]
    /\ result = NoResult

\* the call returns
determine_color_space_returned ==
    /\ call.fn = "determine_color_space"
    /\ result = NoResult
    /\ result' = determine_color_space(call)
    /\ UNCHANGED <<call, uiVars>>

NextClassify == determine_color_space_returned

SpecClassify == InitClassify /\ [][NextClassify]_vars

(***************************************************************************)
(* Claims about the classifier (SpecClassify).                             *)
(***************************************************************************)
ClassifyReturned == result # NoResult /\ call.fn = "determine_color_space"

\* the configured token and the synonyms of a color space
TokensOf(cs) ==
    {call.settings.patterns[cs]}
        \cup {call.settings.custom_patterns[cs][k] :
                 k \in 1..Len(call.settings.custom_patterns[cs])}

\* the stem contains a token of the color space, letter case ignored
StemHasTokenOf(cs) == \E t \in TokensOf(cs) : Contains(lower(call.stem), lower(t))

StemHasToken == \E cs \in ColorSpaces : StemHasTokenOf(cs)

\* ACEScg, then RAW, then sRGB-texture, then linear-sRGB
Priority == <<"acescg", "raw", "srgb_texture", "lin_srgb">>

\* C8: when the stem contains a token or synonym of some color space, letter
\* case ignored, the result is the first color space in the order ACEScg,
\* RAW, sRGB-texture, linear-sRGB one of whose tokens the stem contains,
\* whatever the extension, the TIF option and the raw data names.
C8_TokenDecides ==
    ClassifyReturned =>
        \A k \in 1..4 :
            (StemHasTokenOf(Priority[k]) /\ \A x \in 1..(k - 1) : ~StemHasTokenOf(Priority[x]))
            => result.color_space = Priority[k]

\* C8 witness: a stem with a RAW token in capitals and an ACEScg synonym, a
\* raw data name and the .exr extension is classified ACEScg
C8_Witness ==
    /\ ClassifyReturned
    /\ call.stem = <<"_", "R", "a", "w", "A", "C", "E", "S">>
    /\ call.ext = "exr"
    /\ StemHasTokenOf("raw") /\ StemHasTokenOf("acescg")
    /\ result.color_space = "acescg"

\* the non-color-data family as the specification lists it: depth,
\* displacement, normal and bump maps, masks, roughness, metalness, specular,
\* ao, cavity and opacity channel names
NonColorFamily ==
    {<<"_", "d", "e", "p", "t", "h">>, <<"_", "d", "i", "s", "p">>, <<"_", "d", "i", "s", "p", "l", "a", "c", "e", "m", "e", "n", "t">>,
     <<"_", "n", "o", "r", "m", "a", "l">>, <<"_", "b", "u", "m", "p">>, <<"_", "m", "a", "s", "k">>,
     <<"_", "r", "o", "u", "g", "h", "n", "e", "s", "s">>, <<"_", "m", "e", "t", "a", "l", "n", "e", "s", "s">>, <<"_", "s", "p", "e", "c">>,
     <<"_", "a", "o">>, <<"_", "c", "a", "v", "i", "t", "y">>, <<"_", "o", "p", "a", "c", "i", "t", "y">>}

StemInNonColorFamily ==
    \/ \E t \in NonColorFamily : Contains(lower(call.stem), t)
    \/ matches_RAW_DATA_PATTERN(lower(call.stem))

\* C9: a stem that matches the non-color-data pattern family and contains no
\* token is classified RAW with the force-float hint, whatever the extension.
C9_NonColorIsRaw ==
    (ClassifyReturned /\ ~StemHasToken /\ StemInNonColorFamily)
    => /\ result.color_space = "raw"
       /\ result.additional_options = "-d float"

\* C9 witness: wood_normal.png under the default settings is RAW albeit .png
C9_Witness ==
    /\ ClassifyReturned
    /\ call.stem = <<"w", "o", "o", "d", "_", "n", "o", "r", "m", "a", "l">>
    /\ call.ext = "png"
    /\ call.settings.patterns = DefaultPatterns
    /\ call.settings.custom_patterns = NoCustomPatterns
    /\ result.color_space = "raw"
    /\ result.additional_options = "-d float"

\* C10: for a stem with no token and no raw data name the extension decides:
\* .exr gives linear-sRGB; .tif and .tiff give sRGB-texture with the TIF
\* option set and linear-sRGB without it; any other extension sRGB-texture.
C10_ExtensionDefault ==
    (ClassifyReturned /\ ~StemHasToken /\ ~matches_RAW_DATA_PATTERN(lower(call.stem)))
    => result.color_space =
          (IF ClassifyExtLower[call.ext] = "exr" THEN "lin_srgb"
           ELSE IF ClassifyExtLower[call.ext] \in {"tif", "tiff"}
                THEN (IF call.tif_srgb THEN "srgb_texture" ELSE "lin_srgb")
           ELSE "srgb_texture")

\* C10 witness: wood.tiff without the TIF option is linear-sRGB
C10_Witness ==
    /\ ClassifyReturned
    /\ call.stem = <<"w", "o", "o", "d">>
    /\ call.ext = "tiff"
    /\ ~call.tif_srgb
    /\ ~StemHasToken
    /\ result.color_space = "lin_srgb"

\* the configured token of the color space returned
ReturnedToken == call.settings.patterns[result.color_space]

\* the path given to the call: no suggested path was produced
Unsuggested == [stem |-> call.stem, ext |-> call.ext]

\* the number of places of s where p stands
Occurrences(s, p) == Cardinality({k \in 1..Len(s) : MatchAt(s, p, k)})

\* C21 as stated: a suggested path is produced only when the add-suffix or
\* the rename option is active, and none when the stem already holds the
\* token, so that no suggested path holds the token twice.
C21_SuggestionOnlyWhenNeeded ==
    ClassifyReturned =>
        /\ ~call.naming_option => result.new_name = Unsuggested
        /\ Contains(lower(call.stem), lower(ReturnedToken))
              => result.new_name = Unsuggested
        /\ ReturnedToken # <<>>
              => Occurrences(lower(result.new_name.stem), lower(ReturnedToken)) <= 1

\* C21 amended: the classifier produces a suggested path on every call,
\* whatever the options: the path given with the configured token of the
\* color space returned inserted before the extension, also when the stem
\* already holds that token (the suggestion then holds it twice).
C21_SuggestionAlwaysProduced ==
    ClassifyReturned =>
        /\ result.new_name.ext = call.ext
        /\ result.new_name.stem = call.stem \o ReturnedToken
        /\ (ReturnedToken # <<>> /\ Contains(lower(call.stem), lower(ReturnedToken)))
              => Occurrences(lower(result.new_name.stem), lower(ReturnedToken)) >= 2

\* C21 witness: neither option is active, wood_Raw.png is RAW by its token
\* and the suggestion is wood_Raw_raw.png
C21_Witness ==
    /\ ClassifyReturned
    /\ ~call.naming_option
    /\ call.stem = <<"w", "o", "o", "d", "_", "R", "a", "w">>
    /\ call.ext = "png"
    /\ call.settings.patterns = DefaultPatterns
    /\ result.color_space = "raw"
    /\ result.new_name.stem = <<"w", "o", "o", "d", "_", "R", "a", "w", "_", "r", "a", "w">>

\* the stem contains a token or synonym that is not blank
StemHasNonBlankToken ==
    \E cs \in ColorSpaces : \E t \in TokensOf(cs) :
        t # <<>> /\ Contains(lower(call.stem), lower(t))

\* C27: a blank token matches no file name: a stem that contains none of
\* the non-blank tokens and synonyms is classified by the raw data names
\* and the extension, not by the token level.
C27_BlankTokenMatchesNothing ==
    (ClassifyReturned /\ ~StemHasNonBlankToken)
    => result.color_space =
          (IF matches_RAW_DATA_PATTERN(lower(call.stem)) THEN "raw"
           ELSE IF ClassifyExtLower[call.ext] = "exr" THEN "lin_srgb"
           ELSE IF ClassifyExtLower[call.ext] \in {"tif", "tiff"}
                THEN (IF call.tif_srgb THEN "srgb_texture" ELSE "lin_srgb")
           ELSE "srgb_texture")

(***************************************************************************)
(* Files, the rename passes and the texture list of process_textures.      *)
(* A file is [dir, stem, ext]: its directory below the folder ("top" or    *)
(* "sub"), the stem of its name and its extension as written.  disk is the *)
(* set of files that exist.                                                *)
(***************************************************************************)
\* valid_exts of gather_textures, rename_files and rename_dropped_files
ValidExts == {"png", "jpg", "jpeg", "tif", "tiff", "exr", "bmp", "gif"}

\* os.path.splitext(file_path)[1].lower(), without the dot
file_ext(f) == ClassifyExtLower[f.ext]

\* the color space determine_color_space gives a file; ui holds the TIF
\* checkbox and the user settings
color_space_of(f, ui) ==
    determine_color_space([stem |-> f.stem, ext |-> f.ext, tif_srgb |-> ui.tif_srgb,
                           settings |-> ui.settings]).color_space

\* any(suf in base.lower() for suf in ['_raw', '_srgb_texture', '_lin_srgb',
\* '_acescg'])
has_suffix(f) == \E suf \in KnownSuffixes : Contains(lower(f.stem), suf)

rename_target_UsesToken(f, cs, ui) ==
    [f EXCEPT !.stem = @ \o ui.settings.patterns[cs]]

\* f"{base}_{color_space}{ext}" in the directory of the file
rename_target(f, cs, ui) ==
    [f EXCEPT !.stem = @ \o <<"_">> \o ColorSpaceChars(cs)]

\* os.rename(f, t): raises when f does not exist or is one of fails (no
\* permission, a target the platform does not replace); otherwise f is gone
\* and t exists, replacing a file of that name
os_rename(disk, fails, f, t) ==
    IF f \notin disk \/ f \in fails
    THEN [ok |-> FALSE, disk |-> disk]
    ELSE [ok |-> TRUE, disk |-> (disk \ {f}) \cup {t}]

\* the lists of a rename pass before its loop
NewPass(disk) ==
    [renamed |-> <<>>, skipped |-> <<>>, updated_paths |-> <<>>, errors |-> <<>>,
     disk |-> disk]

\* skipped_files.append(file_path), updated_paths.append(file_path)
rename_skipped(acc, f) ==
    [acc EXCEPT !.skipped = Append(@, f), !.updated_paths = Append(@, f)]

rename_tried_DropsFailed(acc, f, t, r) ==
    IF r.ok
    THEN [acc EXCEPT !.renamed = Append(@, <<f, t>>),
                     !.updated_paths = Append(@, t),
                     !.disk = r.disk]
    ELSE [acc EXCEPT !.errors = Append(@, f)]

\* the try statement around os.rename (lines 1006-1010, 1051-1057) with the
\* outcome r of os.rename(f, t); errors are the files of the 'Error
\* renaming' log lines
rename_tried(acc, f, t, r) ==
    IF r.ok
    THEN [acc EXCEPT !.renamed = Append(@, <<f, t>>),
                     !.updated_paths = Append(@, t),
                     !.disk = r.disk]
    ELSE [acc EXCEPT !.errors = Append(@, f),
                     !.updated_paths = Append(@, f)]

\* the body of the for loop for a file of a valid extension and of color
\* space cs (lines 995-1014, 1038-1057)
rename_classified(acc, f, cs, add_suffix, ui, fails) ==
    IF cs \notin ColorSpaces THEN rename_skipped(acc, f)
    ELSE IF ~add_suffix \/ has_suffix(f) THEN rename_skipped(acc, f)
    ELSE rename_tried(acc, f, rename_target(f, cs, ui),
                      os_rename(acc.disk, fails, f, rename_target(f, cs, ui)))

\* the body of the for loop of rename_files (with add_suffix) and of
\* rename_dropped_files (add_suffix TRUE) for one file
rename_one(acc, f, add_suffix, ui, fails) ==
    IF file_ext(f) \notin ValidExts THEN rename_skipped(acc, f)
    ELSE rename_classified(acc, f, color_space_of(f, ui), add_suffix, ui, fails)

RECURSIVE rename_loop(_, _, _, _, _, _)
\* the for loop over the files from position k on
rename_loop(acc, files, k, add_suffix, ui, fails) ==
    IF k > Len(files) THEN acc
    ELSE rename_loop(rename_one(acc, files[k], add_suffix, ui, fails),
                     files, k + 1, add_suffix, ui, fails)

RECURSIVE SeqOfSet(_)
\* the files of a set in the order the file system lists them
SeqOfSet(S) ==
    IF S = {} THEN <<>>
    ELSE LET x == CHOOSE y \in S : TRUE IN <<x>> \o SeqOfSet(S \ {x})

\* os.walk(folder_path) with recurse, os.listdir(folder_path) without
os_walk(disk, recurse) == SeqOfSet({f \in disk : recurse \/ f.dir = "top"})

\* lines 971-1020; the skipped files and the errors are logged only
rename_files(disk, add_suffix, recurse, ui, fails) ==
    rename_loop(NewPass(disk), os_walk(disk, recurse), 1, add_suffix, ui, fails)

\* lines 1022-1063; the return value is updated_paths
rename_dropped_files(file_list, disk, ui, fails) ==
    rename_loop(NewPass(disk), file_list, 1, TRUE, ui, fails)

gather_textures_AnyFile(disk, recurse) == os_walk(disk, recurse)

\* lines 854-868
gather_textures(disk, recurse) ==
    LET keep(f) == file_ext(f) \in ValidExts /\ file_ext(f) \notin {"tex", "tx"}
    IN SelectSeq(os_walk(disk, recurse), keep)

\* no rename pass was run
NoPass == [renamed |-> <<>>, skipped |-> <<>>, updated_paths |-> <<>>,
           errors |-> <<>>, disk |-> {}]

\* lines 1066-1071: the dropped files, p the rename pass that was run
dropped_textures(p, file_list, disk) ==
    [warning |-> "none", mode |-> "dropped", pass |-> p,
     textures |-> file_list, disk |-> disk, dropped_files |-> file_list]

\* lines 1078-1085: the textures of the folder, p the rename pass that was run
folder_textures(p, disk, recurse) ==
    [warning |-> "none", mode |-> "folder", pass |-> p,
     textures |-> gather_textures(disk, recurse), disk |-> disk,
     dropped_files |-> <<>>]

\* self.dropped_files = self.rename_dropped_files(self.dropped_files)
dropped_renamed(p) == dropped_textures(p, p.updated_paths, p.disk)

\* self.rename_files(folder_path, ...), then gather_textures(folder_path, ...)
folder_renamed(p, recurse) == folder_textures(p, p.disk, recurse)

\* lines 1066-1085 of process_textures: the texture list of a click.
\* c: [dropped_files, folder_path_set, disk, recurse, add_suffix, fails,
\* tif_srgb, settings]
click_textures(c) ==
    IF c.dropped_files # <<>>
    THEN IF c.add_suffix
         THEN dropped_renamed(rename_dropped_files(c.dropped_files, c.disk, c, c.fails))
         ELSE dropped_textures(NoPass, c.dropped_files, c.disk)
    ELSE IF ~c.folder_path_set
    THEN [warning |-> "No folder path found.", mode |-> "folder", pass |-> NoPass,
          textures |-> <<>>, disk |-> c.disk, dropped_files |-> <<>>]
    ELSE IF c.add_suffix
         THEN folder_renamed(rename_files(c.disk, TRUE, c.recurse, c, c.fails), c.recurse)
         ELSE folder_textures(NoPass, c.disk, c.recurse)

\* lines 1093-1099: the positions of the textures of a recognized color space
recognized(textures, ui) ==
    {k \in 1..Len(textures) : color_space_of(textures[k], ui) \in ColorSpaces}

\* the elements of s at the positions of P, in order
SubSeqAt(s, P) ==
    LET keep(k) == k \in P
        idx == SelectSeq([k \in 1..Len(s) |-> k], keep)
    IN [k \in 1..Len(idx) |-> s[idx[k]]]

\* lines 1087-1112 for the texture list t and the positions rec of its
\* recognized textures: these are selected, the others are named in the log;
\* nothing selected is a warning
selection(t, rec) ==
    [fn |-> "process_textures",
     warning |-> IF t.warning # "none" THEN t.warning
                 ELSE IF rec = {} THEN "No textures matched"
                 ELSE "none",
     mode |-> t.mode, pass |-> t.pass, textures |-> t.textures,
     selected_textures |-> SubSeqAt(t.textures, rec),
     skipped_textures |-> SubSeqAt(t.textures, (1..Len(t.textures)) \ rec),
     total |-> Cardinality(rec), disk |-> t.disk, dropped_files |-> t.dropped_files]

selected_by(t, ui) == selection(t, recognized(t.textures, ui))

\* lines 1066-1112
select_textures(c) == selected_by(click_textures(c), c)

(***************************************************************************)
(* SpecRename: the file-level part of process_textures (lines 1066-1112)   *)
(* applied to one state of the UI and of the disk, then applied again by   *)
(* the next click to the state it left.                                    *)
(***************************************************************************)
\* largest number of files of a folder or of a dropped list
MaxFiles == 2

DefaultSettings == [patterns |-> DefaultPatterns, custom_patterns |-> NoCustomPatterns]

\* other tokens for RAW and ACEScg (the settings dialog, lines 725-754)
CustomTokenSettings ==
    [patterns |-> [DefaultPatterns EXCEPT !.raw = <<"_", "R", "W">>,
                                          !.acescg = <<"_", "A", "C", "G">>],
     custom_patterns |-> NoCustomPatterns]

\* the sRGB token set to "_sRGB" in the settings dialog (lines 725-754)
SrgbTokenSettings ==
    [patterns |-> [DefaultPatterns EXCEPT !.srgb_texture = <<"_", "s", "R", "G", "B">>],
     custom_patterns |-> NoCustomPatterns]

File(dir, stem, ext) == [dir |-> dir, stem |-> stem, ext |-> ext]

\* wood.png, wood_normal.exr, wood_Raw.tif, wood_rw.tif, notes.txt and
\* sub/wood.PNG
FilePool ==
    {File("top", <<"w", "o", "o", "d">>, "png"),
     File("top", <<"w", "o", "o", "d", "_", "n", "o", "r", "m", "a", "l">>, "exr"),
     File("top", <<"w", "o", "o", "d", "_", "R", "a", "w">>, "tif"),
     File("top", <<"w", "o", "o", "d", "_", "r", "w">>, "tif"),
     File("top", <<"n", "o", "t", "e", "s">>, "txt"),
     File("sub", <<"w", "o", "o", "d">>, "PNG")}

Range(s) == {s[k] : k \in 1..Len(s)}

\* the lists of up to n different elements of S (dropEvent, lines 780-795:
\* the files of one drop)
SeqsUpTo(S, n) ==
    UNION {{l \in [1..k -> S] : \A i, j \in 1..k : l[i] = l[j] => i = j} : k \in 0..n}

SubsetsUpTo(S, n) == {T \in SUBSET S : Cardinality(T) <= n}

\* the UI with dropped files, up to n of pool: at most one of them no longer
\* exists, the rename of at most one of them is refused
DroppedClicks(pool, n, tifs, sts) ==
    UNION {
        {[fn |-> "process_textures", dropped_files |-> l, folder_path_set |-> FALSE,
          disk |-> Range(l) \ missing, recurse |-> FALSE, add_suffix |-> add,
          fails |-> fails, tif_srgb |-> tif, settings |-> st] :
            missing \in SubsetsUpTo(Range(l), 1), fails \in SubsetsUpTo(Range(l), 1),
            add \in BOOLEAN, tif \in tifs, st \in sts} :
        l \in SeqsUpTo(pool, n) \ {<<>>}}

\* the UI without dropped files: no folder path, or a folder holding up to n
\* files of pool; the rename of at most one of them is refused
FolderClicks(pool, n, tifs, sts) ==
    {[fn |-> "process_textures", dropped_files |-> <<>>, folder_path_set |-> FALSE,
      disk |-> {}, recurse |-> rec, add_suffix |-> add,
      fails |-> {}, tif_srgb |-> FALSE, settings |-> DefaultSettings] :
        rec \in BOOLEAN, add \in BOOLEAN}
    \cup UNION {
        {[fn |-> "process_textures", dropped_files |-> <<>>, folder_path_set |-> TRUE,
          disk |-> d, recurse |-> rec, add_suffix |-> add,
          fails |-> fails, tif_srgb |-> tif, settings |-> st] :
            fails \in SubsetsUpTo(d, 1), rec \in BOOLEAN, add \in BOOLEAN,
            tif \in tifs, st \in sts} :
        d \in SubsetsUpTo(pool, n)}

InitRename ==
    /\ Init!1 /\ Init!2 /\ Init!3 /\ Init!4 /\ Init!5
    /\ Init!6 /\ Init!7 /\ Init!8 /\ Init!9 /\ Init!10
    /\ call \in DroppedClicks(FilePool, MaxFiles, BOOLEAN,
                              {DefaultSettings, CustomTokenSettings, SrgbTokenSettings})
                \cup FolderClicks(FilePool, MaxFiles, BOOLEAN,
                                  {DefaultSettings, CustomTokenSettings,
                                   SrgbTokenSettings})
    /\ result = NoResult

\* the first click: the rename pass, the texture list, the selection
process_textures_selected ==
    /\ call.fn = "process_textures"
    /\ result = NoResult
    /\ LET sel == select_textures(call)
       IN result' = [fn |-> "process_textures", clicks |-> 1, first |-> sel, last |-> sel]
    /\ UNCHANGED <<call, uiVars>>

\* the next click, with the same options, on the dropped file list (line
\* 1070) and the disk the first one left; what made a rename fail persists
\* or not
process_textures_again(fails) ==
    /\ call.fn = "process_textures"
    /\ result # NoResult
    /\ result.clicks = 1
    /\ LET sel == select_textures([call EXCEPT !.dropped_files = result.first.dropped_files,
                                               !.disk = result.first.disk,
                                               !.fails = fails])
       IN result' = [result EXCEPT !.clicks = 2, !.last = sel]
    /\ UNCHANGED <<call, uiVars>>

NextRename ==
    \/ process_textures_selected
    \/ \E fails \in {call.fails, {}} : process_textures_again(fails)

SpecRename == InitRename /\ [][NextRename]_vars

(***************************************************************************)
(* Claims about the rename pass (SpecRename).                              *)
(***************************************************************************)
Clicked(n) == result # NoResult /\ call.fn = "process_textures" /\ result.clicks = n

\* the files a pass of the first click goes through
ListedFiles ==
    IF call.dropped_files # <<>> THEN call.dropped_files
    ELSE os_walk(call.disk, call.recurse)

\* a file the pass has to rename: a valid extension and none of the four
\* suffixes in its stem
NeedsSuffix(f) ==
    /\ ClassifyExtLower[f.ext] \in ValidExts
    /\ \A cs \in ColorSpaces : ~Contains(lower(f.stem), <<"_">> \o ColorSpaceChars(cs))

\* f with the suffix of some color space added to its stem
Suffixed(f) == {[f EXCEPT !.stem = @ \o <<"_">> \o ColorSpaceChars(cs)] : cs \in ColorSpaces}

\* C11: when the rename pass of a click (folder scope or dropped files) ran
\* without a rename error, the pass of the next click on the files it left
\* renames nothing and leaves the disk as it is.
C11_RenameIdempotent ==
    (Clicked(2) /\ call.add_suffix /\ result.first.pass.errors = <<>>)
    => /\ result.last.pass.renamed = <<>>
       /\ result.last.disk = result.first.disk

\* C11 witness: a folder of two files, both renamed by the first pass and
\* both skipped by the second
C11_Witness ==
    /\ Clicked(2) /\ call.add_suffix
    /\ call.dropped_files = <<>> /\ call.folder_path_set
    /\ Len(result.first.pass.renamed) = 2
    /\ result.first.pass.errors = <<>>
    /\ result.last.pass.renamed = <<>>
    /\ Len(result.last.pass.skipped) = 2

\* C20: a rename that fails is logged for its file and the pass goes on:
\* every listed file is skipped, renamed or logged as an error, and a file
\* that needs a suffix, exists, is listed once and whose rename is not
\* refused is renamed whatever failed before it; a file whose rename failed
\* stays in the texture list under its original path and is selected for
\* the worker; the dropped-file pass returns a list of the length of its
\* input whose k-th entry is the k-th input path or that path with a suffix.
C20_RenameFailureIsLocal ==
    (Clicked(1) /\ call.add_suffix /\ (call.dropped_files # <<>> \/ call.folder_path_set))
    => LET p == result.first.pass
           olds == {p.renamed[k][1] : k \in 1..Len(p.renamed)}
       IN /\ Len(p.renamed) + Len(p.skipped) + Len(p.errors) = Len(ListedFiles)
          /\ \A k \in 1..Len(ListedFiles) :
                LET f == ListedFiles[k]
                IN (/\ NeedsSuffix(f) /\ f \in call.disk /\ f \notin call.fails
                    /\ \A x \in 1..Len(ListedFiles) : ListedFiles[x] = f => x = k)
                   => /\ f \in olds
                      /\ f \notin Range(p.errors)
                      /\ Suffixed(f) \cap result.first.disk # {}
          /\ \A f \in Range(p.errors) :
                /\ f \in Range(ListedFiles)
                /\ f \in Range(result.first.textures)
                /\ f \in Range(result.first.selected_textures)
          /\ call.dropped_files # <<>>
                => /\ Len(p.updated_paths) = Len(call.dropped_files)
                   /\ result.first.dropped_files = p.updated_paths
                   /\ result.first.textures = p.updated_paths
                   /\ \A k \in 1..Len(call.dropped_files) :
                         \/ p.updated_paths[k] = call.dropped_files[k]
                         \/ p.updated_paths[k] \in Suffixed(call.dropped_files[k])

\* C20 witness: wood.png and wood_normal.exr are dropped, the rename of
\* wood.png is refused: it is logged, wood_normal.exr is renamed all the
\* same and both are selected, wood.png under its original path
C20_Witness ==
    /\ Clicked(1) /\ call.add_suffix
    /\ call.dropped_files = <<File("top", <<"w", "o", "o", "d">>, "png"), File("top", <<"w", "o", "o", "d", "_", "n", "o", "r", "m", "a", "l">>, "exr")>>
    /\ call.fails = {File("top", <<"w", "o", "o", "d">>, "png")}
    /\ result.first.pass.errors = <<File("top", <<"w", "o", "o", "d">>, "png")>>
    /\ result.first.pass.renamed
          = <<<<File("top", <<"w", "o", "o", "d", "_", "n", "o", "r", "m", "a", "l">>, "exr"), File("top", <<"w", "o", "o", "d", "_", "n", "o", "r", "m", "a", "l", "_", "r", "a", "w">>, "exr")>>>>
    /\ result.first.selected_textures
          = <<File("top", <<"w", "o", "o", "d">>, "png"), File("top", <<"w", "o", "o", "d", "_", "n", "o", "r", "m", "a", "l", "_", "r", "a", "w">>, "exr")>>

\* C23: classification is stable across the rename pass: for every file a
\* pass renamed, under every configuration of tokens, the renamed path is
\* given the color space the original path was given.
C23_ClassificationStable ==
    Clicked(1)
    => \A k \in 1..Len(result.first.pass.renamed) :
          color_space_of(result.first.pass.renamed[k][2], call)
              = color_space_of(result.first.pass.renamed[k][1], call)

(***************************************************************************)
(* SpecClick: the UI from its fields at one moment on, clicks on 'Process  *)
(* Textures' and 'Load Textures', the batch run a click starts and the     *)
(* slots of the UI thread.  call holds the fields of the UI and the disk,  *)
(* result the outcome of the last click on 'Process Textures'.             *)
(***************************************************************************)
\* largest number of files of a folder or of a dropped list under SpecClick
MaxClickFiles == 1

\* wood.png and old.tx
ClickPool == {File("top", <<"w", "o", "o", "d">>, "png"), File("top", <<"o", "l", "d">>, "tx")}

ClickBackendOptions ==
    {[use_houdini_rat |-> FALSE, use_renderman |-> FALSE, renderman_root_set |-> FALSE],
     [use_houdini_rat |-> TRUE, use_renderman |-> FALSE, renderman_root_set |-> FALSE]}

InitClick ==
    /\ Init!1 /\ Init!2 /\ Init!3 /\ Init!4 /\ Init!5
    /\ Init!6 /\ Init!7 /\ Init!8 /\ Init!9 /\ Init!10
    /\ call \in [fn : {"TxConverterUI"},
                 c : DroppedClicks(ClickPool, MaxClickFiles, {FALSE}, {DefaultSettings})
                       \cup FolderClicks(ClickPool, MaxClickFiles, {FALSE}, {DefaultSettings}),
                 batch_size : 1..MaxBatch,
                 o : ClickBackendOptions]
    /\ result = NoResult

starts_batch_WhenEmpty(sel) == sel.warning # "No folder path found."

\* lines 1074-1076 and 1107-1112: process_textures returns after a warning
starts_batch(sel) == sel.warning = "none"

\* line 156 for every selected texture
selected_exts(sel) == [j \in 1..sel.total |-> file_ext(sel.selected_textures[j])]

\* process_textures from line 1106 on for the selection sel; at most limit
\* clicks start a batch run
process_textures_from(limit, sel, bs, o) ==
    /\ starts_batch(sel) => nruns < limit
    /\ result' = [fn |-> "process_textures_click", sel |-> sel,
                  run |-> IF starts_batch(sel) THEN nruns + 1 ELSE NoRun]
    /\ call' = [call EXCEPT !.c.dropped_files = sel.dropped_files,
                            !.c.disk = sel.disk]
    /\ IF starts_batch(sel)
       THEN start_batch(sel.total, bs, sel.mode, o, selected_exts(sel))
       ELSE UNCHANGED uiVars

\* TxConverterUI.process_textures on the fields of the UI
process_textures_click(limit) ==
    /\ ~aborted
    /\ uiWait = NoRun
    /\ call.fn = "TxConverterUI"
    /\ process_textures_from(limit, select_textures(call.c), call.batch_size, call.o)

\* TxConverterUI.load_textures, line 830: the dropped files are forgotten
load_textures ==
    /\ ~aborted
    /\ uiWait = NoRun
    /\ call.fn = "TxConverterUI"
    /\ call.c.dropped_files # <<>>
    /\ call' = [call EXCEPT !.c.dropped_files = <<>>]
    /\ UNCHANGED <<result, uiVars>>

NextClick ==
    \/ process_textures_click(1)
    \/ load_textures
    \/ WorkerNext(MaxClickFiles)
    \/ updateProgress
    \/ workerFinished
    \/ workerFinished_joined

SpecClick == InitClick /\ [][NextClick]_vars

(***************************************************************************)
(* The log lines of one item.                                              *)
(***************************************************************************)
\* the lines that tell how an item ended: lines 160, 233, 292, 341 (and the
\* handlers 235, 294, 343), line 124
OutcomeLines ==
    SuccessLines \cup FailureLines \cup {"Skipping already-processed file"}

\* the positions of item j's log that hold an outcome line
OutcomeAt(r, j) == {k \in 1..Len(item[r][j].log) : item[r][j].log[k] \in OutcomeLines}

Reported == {rj \in (1..nruns) \X (1..MaxN + 1) :
                rj[2] <= run[rj[1]].total /\ item[rj[1]][rj[2]].st = "reported"}

C12_OutputFilesNeverCompiled ==
    /\ \A r \in 1..nruns : \A j \in 1..run[r].total :
          item[r][j].ext \in {"tex", "tx", "b2r", "rat"} =>
              /\ run[r].mode = "dropped"
              /\ item[r][j].st # "running"
              /\ item[r][j].exc = "none" /\ item[r][j].code = 0
              /\ item[r][j].log \in {<<>>, <<"Starting conversion",
                                             "Skipping already-processed file">>}
              /\ item[r][j].st \in {"finished", "reported"} => item[r][j].skipped
    /\ (result # NoResult /\ result.run # NoRun) =>
          \A j \in 1..run[result.run].total :
              item[result.run][j].ext = ClassifyExtLower[result.sel.selected_textures[j].ext]

\* C12 witness: a dropped old.tx was selected, skipped by convert_texture and
\* reported by run
C12_Witness ==
    /\ result # NoResult /\ result.run # NoRun
    /\ result.sel.mode = "dropped"
    /\ result.sel.selected_textures[1].ext = "tx"
    /\ item[result.run][1].st = "reported"
    /\ item[result.run][1].skipped
    /\ run[result.run].pc = "done"

\* C14: a click on 'Process Textures' that ends in a warning (no folder path
\* in folder mode, or no texture selected) starts no batch run: the step
\* creates no worker and no worker thread, leaves the progress bar as it
\* was, counts no new run, and emits and queues no signal.
C14_WarningStartsNoBatch ==
    [][(result' # result /\ result'.sel.warning # "none")
          => /\ result'.run = NoRun
             /\ UNCHANGED <<worker, worker_thread, progressBar, uiQueue, uiWait,
                            nruns, run, item, events>>]_vars

\* C14 witness: a click ended in the warning about the folder path after a
\* batch run of one texture had finished; the progress bar still shows that
\* run
C14_Witness ==
    /\ result # NoResult
    /\ result.sel.warning = "No folder path found."
    /\ result.run = NoRun
    /\ nruns = 1 /\ run[1].pc = "done"
    /\ progressBar = [max |-> 1, value |-> 1]

(***************************************************************************)
(* SpecAces: detect_aces_version applied to one config path.               *)
(***************************************************************************)
\* longest config file of which every line is drawn freely
MaxLines == 3

AcesLineKinds == {"none", "v13", "v10", "both"}

\* a file of n lines whose only marker line is the last
MarkerAtLine(n, kind) == [k \in 1..n |-> IF k = n THEN kind ELSE "none"]

\* the files: every file of up to MaxLines lines, and the files whose first
\* marker stands on line 500 or 501
AcesFiles ==
    UNION {[1..n -> AcesLineKinds] : n \in 0..MaxLines}
    \cup {MarkerAtLine(n, kind) : n \in {ReadLimit, ReadLimit + 1},
                                  kind \in AcesLineKinds}

\* the config paths: empty; no file; a file open() refuses; a file of which
\* no readline, or the one numbered raises_at, raises
AcesConfigs ==
    {cfg \in [path_set : BOOLEAN, isfile : BOOLEAN, opens : BOOLEAN,
              lines : AcesFiles, raises_at : 0..(MaxLines + 1)] :
        /\ cfg.raises_at <= Len(cfg.lines) + 1
        /\ ~cfg.path_set => ~cfg.isfile
        /\ ~cfg.isfile => ~cfg.opens /\ cfg.lines = <<>>
        /\ ~cfg.opens => cfg.raises_at = 0}

InitAces ==
    /\ Init!1 /\ Init!2 /\ Init!3 /\ Init!4 /\ Init!5
    /\ Init!6 /\ Init!7 /\ Init!8 /\ Init!9 /\ Init!10
    /\ call \in [fn : {"detect_aces_version"}, cfg : AcesConfigs]
    /\ result = NoResult

\* the call returns, or an exception leaves it
detect_aces_version_returns ==
    /\ call.fn = "detect_aces_version"
    /\ result = NoResult
    /\ result' = [fn |-> "detect_aces_version", version |-> detect_aces_version(call.cfg)]
    /\ UNCHANGED <<call, uiVars>>

NextAces == detect_aces_version_returns

SpecAces == InitAces /\ [][NextAces]_vars

\* the lines of the file that hold a marker
MarkerLines(cfg) == {k \in 1..Len(cfg.lines) : cfg.lines[k] # "none"}

\* the first of them
FirstMarker(cfg) == CHOOSE k \in MarkerLines(cfg) : \A x \in MarkerLines(cfg) : k <= x

\* C16: detect_aces_version returns one of "1.3", "1.0.3", "unknown" for
\* every config path and never raises.  It returns "unknown" when the path
\* is empty, when it names no file, when the file cannot be opened or a read
\* fails before a marker line was read, and when no marker stands in the
\* first 500 lines; otherwise the first line with a marker decides: "1.3" if
\* it holds a newer-generation marker (even next to an older one), "1.0.3"
\* if not.
C16_DetectTotal ==
    (result # NoResult /\ call.fn = "detect_aces_version")
    => LET cfg == call.cfg
       IN /\ result.version \in {"1.3", "1.0.3", "unknown"}
          /\ IF \/ ~cfg.path_set \/ ~cfg.isfile \/ ~cfg.opens
                \/ MarkerLines(cfg) = {}
                \/ FirstMarker(cfg) > 500
                \/ (cfg.raises_at # 0 /\ cfg.raises_at <= FirstMarker(cfg))
             THEN result.version = "unknown"
             ELSE result.version = (IF cfg.lines[FirstMarker(cfg)] \in {"v13", "both"}
                                    THEN "1.3" ELSE "1.0.3")

\* C16 witness: a file whose line 500 is its first marker line and holds
\* markers of both generations was detected as 1.3
C16_Witness ==
    /\ result # NoResult /\ call.fn = "detect_aces_version"
    /\ Len(call.cfg.lines) = 500
    /\ call.cfg.lines[500] = "both"
    /\ \A k \in 1..499 : call.cfg.lines[k] = "none"
    /\ result.version = "1.3"

(***************************************************************************)
(* SpecLive: one click and the batch run it starts, as Spec, for up to     *)
(* MaxLiveN textures, with the threads of the run scheduled fairly: the    *)
(* QThread of the worker and the threads of the pool are never stopped     *)
(* forever while they can take a step, and an external process that was    *)
(* spawned exits (convert_texture_exit).                                   *)
(***************************************************************************)
\* largest number of textures of the batch run under SpecLive
MaxLiveN == 2

NextLive ==
    \/ ClickNext(1, MaxLiveN)
    \/ WorkerNext(MaxLiveN)

SpecLive == Init /\ [][NextLive]_vars /\ WF_vars(WorkerNext(MaxLiveN))

\* C24: when every external process exits and the threads of the run are
\* scheduled fairly, a batch run with a concurrency of at least 1 that was
\* started emits its completion signal, whatever the number of textures,
\* their outcomes and the order of the completions.
C24_RunCompletes ==
    \A r \in Runs :
        (run[r].pc = "started" /\ run[r].batch_size >= 1) ~> (run[r].pc = "done")

\* C24 witness: a run of 2 textures with concurrency 1 went through its two
\* groups and emitted the completion signal after progress 1 and 2
C24_Witness ==
    \E r \in Runs :
        /\ run[r].pc = "done" /\ run[r].total = 2 /\ run[r].batch_size = 1
        /\ events[r] = ExpectedEvents(r, 2)

\* C25: for every batch_size of the user settings, zero and negative values
\* included, a run that has emitted the completion signal has emitted
\* progress(total) right before it, and no run over a non-empty list is left
\* by an exception before the completion signal.
C25_AnyBatchSizeCompletes ==
    \A r \in Runs :
        /\ run[r].pc = "done"
              => /\ Len(events[r]) >= 2
                 /\ events[r][Len(events[r]) - 1] = Signal(r, "progress", run[r].total)
        /\ run[r].total >= 1 => run[r].pc # "raised"

\* the completion signals the UI thread has not served yet
PendingFinished == {k \in 1..Len(uiQueue) : uiQueue[k].sig = "finished"}

\* C26: each completion signal is handled against the run that emitted it:
\* the thread workerFinished quits and waits for is the thread of a run that
\* has emitted its completion signal, never that of a run still in flight;
\* no completion signal waits to be served while worker_thread is None; and
\* worker and worker_thread are None only when no run is in flight.
C26_FinishedHandledForItsRun ==
    /\ uiWait # NoRun => run[uiWait].pc = "done"
    /\ PendingFinished # {} => worker_thread # NoRun
    /\ (worker = NoRun \/ worker_thread = NoRun) => RunsInFlight = {}

====
